---- MODULE Spec2Model ----
(***************************************************************************)
(* CareerNova-AI: the LLM orchestration and response-normalisation layer.  *)
(*   generator.py   _fix_json_string, _validate_and_normalise, _call_llm,  *)
(*                  generate_portfolio_data, generate_ats_resume_data      *)
(*   rag_engine.py  detect_intent, chat and its answer branches            *)
(*                                                                         *)
(* Texts are sequences of one-character strings, so that the regular       *)
(* expressions and json.loads of the code are computed character by        *)
(* character.  JSON values are records of one fixed shape                  *)
(*   [t, n, s, keys, items]                                                *)
(* t: "null" "bool" "num" "str" "list" "dict";  n: the number (0/1 for a   *)
(* bool);  s: the characters of a string;  keys/items: the members of a    *)
(* dict in insertion order, or items alone for a list.                     *)
(***************************************************************************)
EXTENDS Integers, Sequences, FiniteSets, TLC

\* ------------------------------------------------------------------------
\* Characters and Python str helpers
\* ------------------------------------------------------------------------

\* str.strip() and the regex class \s, on the characters the texts use.
IsSpace(c) == c \in {" ", "\t", "\n", "\r", "\f"}

\* json's WHITESPACE: [ \t\n\r]*
IsJsonWs(c) == c \in {" ", "\t", "\n", "\r"}

Digits == <<"0", "1", "2", "3", "4", "5", "6", "7", "8", "9">>

IsDigit(c) == \E d \in 1..10 : Digits[d] = c

DigitVal(c) == (CHOOSE d \in 1..10 : Digits[d] = c) - 1

Min(a, b) == IF a < b THEN a ELSE b

RECURSIVE LStripFrom(_, _)
LStripFrom(t, i) ==
    IF i <= Len(t) /\ IsSpace(t[i]) THEN LStripFrom(t, i + 1) ELSE i

RECURSIVE RStripFrom(_, _)
RStripFrom(t, j) ==
    IF j >= 1 /\ IsSpace(t[j]) THEN RStripFrom(t, j - 1) ELSE j

\* str.strip()
Strip(t) == SubSeq(t, LStripFrom(t, 1), RStripFrom(t, Len(t)))

\* t[i:i+len(w)] == w
HasAt(t, i, w) ==
    /\ i >= 1
    /\ i + Len(w) - 1 <= Len(t)
    /\ \A k \in 1..Len(w) : t[i + k - 1] = w[k]

\* the end of the run of \s characters that starts at i (i itself if none)
RECURSIVE SpaceRunEnd(_, _)
SpaceRunEnd(t, i) ==
    IF i <= Len(t) /\ IsSpace(t[i]) THEN SpaceRunEnd(t, i + 1) ELSE i

\* ------------------------------------------------------------------------
\* JSON values
\* ------------------------------------------------------------------------

JNull == [t |-> "null", n |-> 0, s |-> <<>>, keys |-> <<>>, items |-> <<>>]

JBool(b) == [t |-> "bool", n |-> IF b THEN 1 ELSE 0, s |-> <<>>,
             keys |-> <<>>, items |-> <<>>]

JNum(k) == [t |-> "num", n |-> k, s |-> <<>>, keys |-> <<>>, items |-> <<>>]

JStr(cs) == [t |-> "str", n |-> 0, s |-> cs, keys |-> <<>>, items |-> <<>>]

JList(xs) == [t |-> "list", n |-> 0, s |-> <<>>, keys |-> <<>>, items |-> xs]

JDict(ks, xs) == [t |-> "dict", n |-> 0, s |-> <<>>, keys |-> ks, items |-> xs]

\* position of key k in a dict's key list, 0 when absent
KeyIndex(ks, k) ==
    IF \E i \in 1..Len(ks) : ks[i] = k
    THEN CHOOSE i \in 1..Len(ks) : ks[i] = k
    ELSE 0

DictPutAt(d, k, v, i) ==
    IF i = 0
    THEN JDict(Append(d.keys, k), Append(d.items, v))
    ELSE JDict(d.keys, [d.items EXCEPT ![i] = v])

\* d[k] = v on a Python dict: a repeated key keeps its place, takes the new value
DictPut(d, k, v) == DictPutAt(d, k, v, KeyIndex(d.keys, k))

HasKey(d, k) == KeyIndex(d.keys, k) # 0

\* dict.get(k, default)
DictGet(d, k, default) ==
    IF HasKey(d, k) THEN d.items[KeyIndex(d.keys, k)] ELSE default

\* ------------------------------------------------------------------------
\* json.loads, as the code calls it (strict mode, no hooks)
\* ------------------------------------------------------------------------

ParseFail == [ok |-> FALSE, val |-> JNull, next |-> 0]

ParseOk(v, nxt) == [ok |-> TRUE, val |-> v, next |-> nxt]

RECURSIVE SkipWs(_, _)
SkipWs(t, i) ==
    IF i <= Len(t) /\ IsJsonWs(t[i]) THEN SkipWs(t, i + 1) ELSE i

\* index of the first '"' at or after i, 0 when there is none
RECURSIVE NextQuote(_, _)
NextQuote(t, i) ==
    IF i > Len(t) THEN 0
    ELSE IF t[i] = "\"" THEN i
    ELSE NextQuote(t, i + 1)

\* the string between the '"' at i and the one at close (0: unterminated); a raw
\* control character inside is an error
StringUpTo(t, i, close) ==
    IF close = 0 THEN ParseFail
    ELSE IF \E k \in (i + 1)..(close - 1) : t[k] \in {"\n", "\t", "\r", "\f"}
    THEN ParseFail
    ELSE ParseOk(JStr(SubSeq(t, i + 1, close - 1)), close + 1)

\* py_scanstring from the '"' at i
ParseString(t, i) == StringUpTo(t, i, NextQuote(t, i + 1))

RECURSIVE DigitRunEnd(_, _)
DigitRunEnd(t, i) ==
    IF i <= Len(t) /\ IsDigit(t[i]) THEN DigitRunEnd(t, i + 1) ELSE i

RECURSIVE DigitsValue(_, _, _, _)
DigitsValue(t, i, j, acc) ==
    IF i >= j THEN acc ELSE DigitsValue(t, i + 1, j, acc * 10 + DigitVal(t[i]))

NumberUpTo(t, i, j) == ParseOk(JNum(DigitsValue(t, i, j, 0)), j)

\* NUMBER_RE (0|[1-9]\d*) on unsigned integers: "0" ends the match at once
ParseNumber(t, i) ==
    IF t[i] = "0" THEN ParseOk(JNum(0), i + 1)
    ELSE NumberUpTo(t, i, DigitRunEnd(t, i))

\* NUMBER_RE with its optional minus sign
Negative(r) == ParseOk(JNum(0 - r.val.n), r.next)

RECURSIVE ParseValue(_, _)
RECURSIVE ParseMembers(_, _, _)
RECURSIVE ParseElements(_, _, _)

\* after a member's value: d2 holds it, e is at the next token
MemberEnd(t, d2, e) ==
    IF e > Len(t) THEN ParseFail
    ELSE IF t[e] = "}" THEN ParseOk(d2, e + 1)
    ELSE IF t[e] = "," THEN ParseMembers(t, SkipWs(t, e + 1), d2)
    ELSE ParseFail

MemberAfterValue(t, d, key, v) ==
    IF ~v.ok THEN ParseFail
    ELSE MemberEnd(t, DictPut(d, key.val.s, v.val), SkipWs(t, v.next))

\* c is at the token after the key: it must be ':'
MemberColon(t, d, key, c) ==
    IF c > Len(t) \/ t[c] # ":" THEN ParseFail
    ELSE MemberAfterValue(t, d, key, ParseValue(t, SkipWs(t, c + 1)))

MemberAfterKey(t, d, key) ==
    IF ~key.ok THEN ParseFail
    ELSE MemberColon(t, d, key, SkipWs(t, key.next))

\* JSONObject after the '{': j is at the '"' that must open the next key
ParseMembers(t, j, d) ==
    IF j > Len(t) \/ t[j] # "\"" THEN ParseFail
    ELSE MemberAfterKey(t, d, ParseString(t, j))

\* after an element: xs2 holds it, e is at the next token
ElementEnd(t, xs2, e) ==
    IF e > Len(t) THEN ParseFail
    ELSE IF t[e] = "]" THEN ParseOk(JList(xs2), e + 1)
    ELSE IF t[e] = "," THEN ParseElements(t, SkipWs(t, e + 1), xs2)
    ELSE ParseFail

ElementAfterValue(t, xs, v) ==
    IF ~v.ok THEN ParseFail
    ELSE ElementEnd(t, Append(xs, v.val), SkipWs(t, v.next))

\* JSONArray after the '[': j is at the start of the next element
ParseElements(t, j, xs) == ElementAfterValue(t, xs, ParseValue(t, j))

\* JSONObject: j is at the first token after the '{'
ObjectFrom(t, j) ==
    IF j <= Len(t) /\ t[j] = "}"
    THEN ParseOk(JDict(<<>>, <<>>), j + 1)
    ELSE ParseMembers(t, j, JDict(<<>>, <<>>))

\* JSONArray: j is at the first token after the '['
ArrayFrom(t, j) ==
    IF j <= Len(t) /\ t[j] = "]"
    THEN ParseOk(JList(<<>>), j + 1)
    ELSE ParseElements(t, j, <<>>)

\* scan_once
ParseValue(t, i) ==
    IF i > Len(t) THEN ParseFail
    ELSE IF t[i] = "\"" THEN ParseString(t, i)
    ELSE IF t[i] = "{" THEN ObjectFrom(t, SkipWs(t, i + 1))
    ELSE IF t[i] = "[" THEN ArrayFrom(t, SkipWs(t, i + 1))
    ELSE IF HasAt(t, i, <<"n", "u", "l", "l">>) THEN ParseOk(JNull, i + 4)
    ELSE IF HasAt(t, i, <<"t", "r", "u", "e">>) THEN ParseOk(JBool(TRUE), i + 4)
    ELSE IF HasAt(t, i, <<"f", "a", "l", "s", "e">>)
    THEN ParseOk(JBool(FALSE), i + 5)
    ELSE IF IsDigit(t[i]) THEN ParseNumber(t, i)
    ELSE IF t[i] = "-" /\ i < Len(t) /\ IsDigit(t[i + 1])
    THEN Negative(ParseNumber(t, i + 1))
    ELSE ParseFail

LoadFail == [ok |-> FALSE, val |-> JNull]

\* JSONDecoder.decode: the value must be followed by whitespace only
LoadsEnd(t, r) ==
    IF r.ok /\ SkipWs(t, r.next) = Len(t) + 1
    THEN [ok |-> TRUE, val |-> r.val]
    ELSE LoadFail

\* json.loads(text): a value, with nothing but whitespace around it
Loads(t) == LoadsEnd(t, ParseValue(t, SkipWs(t, 1)))

\* ------------------------------------------------------------------------
\* generator.py: _fix_json_string
\* ------------------------------------------------------------------------

\* U+0060, which a TLA+ string literal cannot hold, is written as this token
Backtick == "BACKTICK"

Fence == <<Backtick, Backtick, Backtick>>

\* ^ under re.MULTILINE: at the start of the text or right after a newline
AtLineStart(t, i) == i = 1 \/ (i > 1 /\ t[i - 1] = "\n")

\* $ under re.MULTILINE: at the end of the text or right before a newline
AtLineEnd(t, i) == i = Len(t) + 1 \/ (i <= Len(t) /\ t[i] = "\n")

\* end of a match of  ^```(?:json)?\s*\n?  that starts at i (the \s* takes every
\* following whitespace character, newlines included, so \n? takes nothing)
OpenFenceEnd(t, i) ==
    SpaceRunEnd(t, IF HasAt(t, i + 3, <<"j", "s", "o", "n">>) THEN i + 7 ELSE i + 3)

\* re.sub(r"^```(?:json)?\s*\n?", "", text, flags=re.MULTILINE), from i on
RECURSIVE StripOpenFences(_, _)
StripOpenFences(t, i) ==
    IF i > Len(t) THEN <<>>
    ELSE IF AtLineStart(t, i) /\ HasAt(t, i, Fence)
    THEN StripOpenFences(t, OpenFenceEnd(t, i))
    ELSE <<t[i]>> \o StripOpenFences(t, i + 1)

\* the longest e in a..b with AtLineEnd(t, e), 0 when there is none: where the
\* greedy \s* of the closing-fence pattern stops so that $ matches
RECURSIVE LastLineEnd(_, _, _)
LastLineEnd(t, a, b) ==
    IF b < a THEN 0
    ELSE IF AtLineEnd(t, b) THEN b
    ELSE LastLineEnd(t, a, b - 1)

\* end of a match of  \n?```\s*$  whose fence starts at f, 0 when there is none
CloseFenceAt(t, f) ==
    IF HasAt(t, f, Fence)
    THEN LastLineEnd(t, f + 3, SpaceRunEnd(t, f + 3))
    ELSE 0

\* end of a match of  \n?```\s*$  that starts at i, 0 when it does not match there
CloseFenceEnd(t, i) ==
    CloseFenceAt(t, IF i <= Len(t) /\ t[i] = "\n" THEN i + 1 ELSE i)

RECURSIVE StripCloseFences(_, _)

\* one step of the substitution at i: e is where a match starting at i ends
CloseStep(t, i, e) ==
    IF e # 0 THEN StripCloseFences(t, e)
    ELSE <<t[i]>> \o StripCloseFences(t, i + 1)

\* re.sub(r"\n?```\s*$", "", text, flags=re.MULTILINE), from i on
StripCloseFences(t, i) ==
    IF i > Len(t) THEN <<>> ELSE CloseStep(t, i, CloseFenceEnd(t, i))

\* only the opening fence is removed
StripFences_opening_only(text) == Strip(StripOpenFences(Strip(text), 1))

\* lines 105-111: strip, remove the code fences, strip
StripFences(text) ==
    Strip(StripCloseFences(StripOpenFences(Strip(text), 1), 1))

\* index of the first c at or after i, 0 when there is none
RECURSIVE FirstIndex(_, _, _)
FirstIndex(t, c, i) ==
    IF i > Len(t) THEN 0
    ELSE IF t[i] = c THEN i
    ELSE FirstIndex(t, c, i + 1)

\* index of the last c at or before j, 0 when there is none
RECURSIVE LastIndex(_, _, _)
LastIndex(t, c, j) ==
    IF j < 1 THEN 0
    ELSE IF t[j] = c THEN j
    ELSE LastIndex(t, c, j - 1)

BraceSpan(t, i, j) ==
    IF i # 0 /\ j >= i + 2
    THEN [found |-> TRUE, text |-> SubSeq(t, i, j)]
    ELSE [found |-> FALSE, text |-> <<>>]

\* re.search(r"\{[\s\S]+\}", text): from the first '{' to the last '}', with at
\* least one character between them
BraceSearch(t) == BraceSpan(t, FirstIndex(t, "{", 1), LastIndex(t, "}", Len(t)))

RECURSIVE RemoveTrailingCommas(_, _)

\* one step of the substitution at i: e is the first non-space index after i
CommaStep(t, i, e) ==
    IF t[i] = "," /\ e <= Len(t) /\ t[e] \in {"}", "]"}
    THEN <<t[e]>> \o RemoveTrailingCommas(t, e + 1)
    ELSE <<t[i]>> \o RemoveTrailingCommas(t, i + 1)

\* re.sub(r",\s*([}\]])", r"\1", text), from i on
RemoveTrailingCommas(t, i) ==
    IF i > Len(t) THEN <<>> ELSE CommaStep(t, i, SpaceRunEnd(t, i + 1))

ErrorPrefixLen == 300

\* The outcome of _fix_json_string: the parsed value and the number of the
\* strategy (as the code's comments number them) that produced it, or the
\* ValueError with the first 300 characters of the fence-stripped text.
FixOk(v, k) == [ok |-> TRUE, val |-> v, strategy |-> k, err |-> <<>>]

FixError(t) ==
    [ok |-> FALSE, val |-> JNull, strategy |-> 0,
     err |-> SubSeq(t, 1, Min(ErrorPrefixLen, Len(t)))]

\* the whole text as a candidate for json.loads
Whole(t) == [found |-> TRUE, text |-> t]

\* json.loads of a candidate; a search that found nothing is skipped
TryLoads(c) == IF c.found THEN Loads(c.text) ELSE LoadFail

\* the four json.loads attempts of lines 113-142, in the order of the code:
\* the text, its brace-bounded block, the comma-cleaned text, its block
Attempts(t, cleaned) ==
    [k \in 1..4 |->
        TryLoads(<<Whole(t), BraceSearch(t), Whole(cleaned), BraceSearch(cleaned)>>[k])]

\* the first attempt that parsed wins; strategies are numbered as in the code
FirstParsed(t, tries) ==
    IF \E k \in 1..4 : tries[k].ok
    THEN FixOk(tries[CHOOSE k \in 1..4 : tries[k].ok /\ \A m \in 1..(k - 1) : ~tries[m].ok].val,
               1 + (CHOOSE k \in 1..4 : tries[k].ok /\ \A m \in 1..(k - 1) : ~tries[m].ok))
    ELSE FixError(t)

\* lines 113-144 on the fence-stripped text
FixStripped(t) == FirstParsed(t, Attempts(t, RemoveTrailingCommas(t, 1)))

_fix_json_string(text) == FixStripped(StripFences(text))

\* ------------------------------------------------------------------------
\* Python str(), repr(), bool() and str.title()/upper() on these values
\* ------------------------------------------------------------------------

LowerLetters == <<"a", "b", "c", "d", "e", "f", "g", "h", "i", "j", "k", "l", "m",
                  "n", "o", "p", "q", "r", "s", "t", "u", "v", "w", "x", "y", "z">>

UpperLetters == <<"A", "B", "C", "D", "E", "F", "G", "H", "I", "J", "K", "L", "M",
                  "N", "O", "P", "Q", "R", "S", "T", "U", "V", "W", "X", "Y", "Z">>

IsLower(c) == \E k \in 1..26 : LowerLetters[k] = c

IsUpper(c) == \E k \in 1..26 : UpperLetters[k] = c

UpperChar(c) ==
    IF IsLower(c) THEN UpperLetters[CHOOSE k \in 1..26 : LowerLetters[k] = c] ELSE c

LowerChar(c) ==
    IF IsUpper(c) THEN LowerLetters[CHOOSE k \in 1..26 : UpperLetters[k] = c] ELSE c

\* str.upper()
Upper(t) == [i \in 1..Len(t) |-> UpperChar(t[i])]

\* str.title(): a letter is upper-cased after a non-letter, lower-cased after a letter
Title(t) ==
    [i \in 1..Len(t) |->
        IF i > 1 /\ (IsLower(t[i - 1]) \/ IsUpper(t[i - 1]))
        THEN LowerChar(t[i])
        ELSE UpperChar(t[i])]

\* str(n) of a natural number
RECURSIVE IntText(_)
IntText(k) ==
    IF k < 10 THEN <<Digits[k + 1]>>
    ELSE IntText(k \div 10) \o <<Digits[(k % 10) + 1]>>

\* repr of a str: single quotes, or double quotes when it holds ' and no "
ReprStr(cs) ==
    IF (\E i \in 1..Len(cs) : cs[i] = "'") /\ ~(\E i \in 1..Len(cs) : cs[i] = "\"")
    THEN <<"\"">> \o cs \o <<"\"">>
    ELSE <<"'">> \o cs \o <<"'">>

RECURSIVE Repr(_)
RECURSIVE ReprItems(_, _)
RECURSIVE ReprMembers(_, _, _)

\* ", ".join(repr(x) for x in xs[i:])
ReprItems(xs, i) ==
    IF i > Len(xs) THEN <<>>
    ELSE (IF i > 1 THEN <<",", " ">> ELSE <<>>) \o Repr(xs[i]) \o ReprItems(xs, i + 1)

\* ", ".join(repr(k) + ": " + repr(v)) over the members from i on
ReprMembers(ks, xs, i) ==
    IF i > Len(ks) THEN <<>>
    ELSE (IF i > 1 THEN <<",", " ">> ELSE <<>>)
         \o ReprStr(ks[i]) \o <<":", " ">> \o Repr(xs[i])
         \o ReprMembers(ks, xs, i + 1)

Repr(v) ==
    CASE v.t = "null" -> <<"N", "o", "n", "e">>
      [] v.t = "bool" -> IF v.n = 1 THEN <<"T", "r", "u", "e">>
                         ELSE <<"F", "a", "l", "s", "e">>
      [] v.t = "num" -> IntText(v.n)
      [] v.t = "str" -> ReprStr(v.s)
      [] v.t = "list" -> <<"[">> \o ReprItems(v.items, 1) \o <<"]">>
      [] v.t = "dict" -> <<"{">> \o ReprMembers(v.keys, v.items, 1) \o <<"}">>

\* str(v)
Str(v) == IF v.t = "str" THEN v.s ELSE Repr(v)

\* bool(v)
Truthy(v) ==
    CASE v.t = "null" -> FALSE
      [] v.t = "bool" -> v.n = 1
      [] v.t = "num" -> v.n # 0
      [] v.t = "str" -> v.s # <<>>
      [] v.t = "list" -> v.items # <<>>
      [] v.t = "dict" -> v.keys # <<>>

\* ------------------------------------------------------------------------
\* generator.py: _validate_and_normalise
\* ------------------------------------------------------------------------

K_name == <<"n", "a", "m", "e">>
K_role == <<"r", "o", "l", "e">>
K_tagline == <<"t", "a", "g", "l", "i", "n", "e">>
K_bio == <<"b", "i", "o">>
K_skills == <<"s", "k", "i", "l", "l", "s">>
K_projects == <<"p", "r", "o", "j", "e", "c", "t", "s">>
K_experience == <<"e", "x", "p", "e", "r", "i", "e", "n", "c", "e">>
K_education == <<"e", "d", "u", "c", "a", "t", "i", "o", "n">>
K_achievements == <<"a", "c", "h", "i", "e", "v", "e", "m", "e", "n", "t", "s">>
K_contact == <<"c", "o", "n", "t", "a", "c", "t">>

Unknown == <<"U", "n", "k", "n", "o", "w", "n">>

\* the defaults dict of lines 246-257, in its insertion order
defaults(username) ==
    JDict(<<K_name, K_role, K_tagline, K_bio, K_skills, K_projects,
            K_experience, K_education, K_achievements, K_contact>>,
          <<JStr(IF username # <<>> THEN Title(username) ELSE Unknown),
            JStr(<<>>), JStr(<<>>), JStr(<<>>),
            JList(<<>>), JList(<<>>), JList(<<>>), JList(<<>>), JList(<<>>),
            JDict(<<>>, <<>>)>>)

\* the value is taken as the model gave it
Coerce_as_given(val, default) == val

\* lines 261-268: data.get(key, default), then the type coercion
Coerce(val, default) ==
    IF default.t = "list" /\ val.t # "list" THEN default
    ELSE IF default.t = "dict" /\ val.t # "dict" THEN default
    ELSE IF default.t = "str" /\ val.t # "str"
    THEN (IF Truthy(val) THEN JStr(Str(val)) ELSE default)
    ELSE val

\* lines 259-271: one entry per key of defaults, in its order
Normalised(data, dflt) ==
    JDict(dflt.keys,
          [i \in 1..Len(dflt.keys) |->
              Coerce(DictGet(data, dflt.keys[i], dflt.items[i]), dflt.items[i])])

\* [ok, val]: the normalised dict, or the ValueError for non-dict JSON
_validate_and_normalise(data, username) ==
    IF data.t # "dict" THEN [ok |-> FALSE, val |-> JNull]
    ELSE [ok |-> TRUE, val |-> Normalised(data, defaults(username))]

\* ------------------------------------------------------------------------
\* State
\* ------------------------------------------------------------------------

VARIABLES
    \* one call of generate_portfolio_data / generate_ats_resume_data
    pc,               \* "idle", "loop" (inside the for loop), "done"
    task,             \* "portfolio" or "ats": which of the two functions runs
    model,            \* the caller's model argument ("" for None)
    username,         \* the caller's username argument (portfolio only)
    models_to_try,    \* the candidate list built at the start of the call
    called,           \* the models _call_llm was called with, in call order
    last_response,    \* what the endpoint answered to the last call
    last_error,       \* the last_error local: [type, model]
    sleeps,           \* asyncio.sleep(1) executed so far
    net_failures,     \* attempts that ended in the HTTP/timeout handler
    parse_failures,   \* attempts that ended in the ValueError/KeyError handler
    rate_limited,     \* TRUE while every failed attempt so far was a 429
    outcome,          \* "none", "returned", "raised"
    result,           \* the value returned to the caller
    raised,           \* the exception that left the call: [type, last]
    \* one call of _fix_json_string
    fx_pc,            \* "input", "done"
    fx_kind,          \* how the text was made from the base object text:
                      \* "plain", "comma" (one trailing comma), "fence",
                      \* "prose" (inside a sentence), "prose_comma"
    fx_base,          \* the text of a JSON object
    fx_text,          \* the text argument
    fx_out,           \* _fix_json_string(fx_text)
    fx_base_out,      \* _fix_json_string(fx_base)
    \* one call of _validate_and_normalise
    nm_pc,            \* "input", "done"
    nm_data,          \* the data argument
    nm_user,          \* the username argument
    nm_out,           \* what the call returned or raised: [ok, val]
    \* one call of rag_engine.chat
    ch_pc,            \* "start", "intent", "dispatch", "done", "raised"
    ch_message,       \* user_message
    ch_portfolio,     \* portfolio_data
    ch_resume,        \* resume_text
    ch_history,       \* conversation_history
    ch_context,       \* the context local, once built
    ch_prompt,        \* the consolidated prompt of the RAG branch
    ch_raised,        \* the exception that left chat, "None" when none
    ch_intent,        \* what Gemini answered to the intent prompt
    ch_mode,          \* the value detect_intent returned
    ch_branch,        \* the prompt template the answer call was made with
    ch_reply,         \* what Gemini answered to the answer prompt
    ch_result,        \* the dict chat returned: [answer, mode]
    \* one call of jobs_engine._score_and_filter_jobs
    js_pc,            \* "idle", "start", "posted", "done", "raised"
    js_jobs,          \* the jobs argument: the fetched listings, in fetch order
    js_skills,        \* portfolio.skills
    js_response,      \* what the scoring endpoint answered
    js_scores,        \* the scores local: the parsed reply
    js_path,          \* "none", "empty", "scored", "fallback": the return taken
    js_out,           \* the list returned
    js_raised,        \* the exception that left the call, "None" when none
    \* the calls of jobs_engine.get_recommended_jobs of one process
    jc_now,           \* the clock of the cache (time.monotonic), in seconds
    jc_configured,    \* ADZUNA_APP_ID and ADZUNA_APP_KEY are set
    jc_cache,         \* jobs_cache: its items, least recently used first
    jc_req,           \* the requests being served or last served, one per slot
    jc_started,       \* the searches started so far
    jc_stores,        \* history: the stores into the cache, in order
    jc_evicted,       \* history: <<sid, by>>, the item of store sid was dropped to
                      \* make room for the item of store by
    \* one call of main.upload_resume
    up_pc,            \* "idle", "start", "processing", "done"
    up_user,          \* user.username
    up_kind,          \* the request: "pdf", or why it is refused
    up_file,          \* the uploaded file exists in UPLOAD_DIR
    up_outcome,       \* "none", "returned", or the exception process_resume raised
    up_data,          \* the data local
    up_has_row,       \* the user has a portfolio row
    up_row,           \* the columns of that row
    up_response,      \* "none", "HTTP 400", or the message returned
    \* the portfolio row of one user and the requests addressed to it
    pv_published,     \* portfolio.is_published
    pv_api_key,       \* the owner's key or OPENROUTER_API_KEY is set
    pv_resume_text,   \* portfolio.resume_text is not empty
    pv_count,         \* the requests handled so far
    pv_last           \* the request handled last: endpoint, requester, slug, the
                      \* flag when it was handled, and the status of the response

orch_vars == <<pc, task, model, username, models_to_try, called, last_response,
               last_error, sleeps, net_failures, parse_failures, rate_limited,
               outcome, result, raised>>

fx_vars == <<fx_pc, fx_kind, fx_base, fx_text, fx_out, fx_base_out>>

nm_vars == <<nm_pc, nm_data, nm_user, nm_out>>

ch_vars == <<ch_pc, ch_message, ch_portfolio, ch_resume, ch_history, ch_context,
             ch_prompt, ch_raised, ch_intent, ch_mode, ch_branch, ch_reply, ch_result>>

js_vars == <<js_pc, js_jobs, js_skills, js_response, js_scores, js_path, js_out, js_raised>>

jc_vars == <<jc_now, jc_configured, jc_cache, jc_req, jc_started, jc_stores, jc_evicted>>

up_vars == <<up_pc, up_user, up_kind, up_file, up_outcome, up_data, up_has_row, up_row,
             up_response>>

pv_vars == <<pv_published, pv_api_key, pv_resume_text, pv_count, pv_last>>

vars == <<orch_vars, fx_vars, nm_vars, ch_vars, js_vars, jc_vars, up_vars, pv_vars>>

\* ------------------------------------------------------------------------
\* generator.py: candidate models, _call_llm, the fallback loop
\* ------------------------------------------------------------------------

FALLBACK_MODELS ==
    <<"google/gemma-3-12b-it:free",
      "google/gemma-3-4b-it:free",
      "meta-llama/llama-3.3-70b-instruct:free",
      "meta-llama/llama-3.2-3b-instruct:free",
      "mistralai/mistral-small-3.1-24b-instruct:free",
      "deepseek/deepseek-r1-0528:free",
      "qwen/qwen3-4b:free">>

DEFAULT_LLM_MODEL == "google/gemma-3-12b-it:free"

\* a model argument that is not in the fallback list
CustomModel == "openai/gpt-4o-mini"

\* the model arguments a caller passes: none, the first, a middle and the last
\* fallback model, and a model outside the list
ModelArgs == {"", FALLBACK_MODELS[1], FALLBACK_MODELS[4], FALLBACK_MODELS[7],
              CustomModel}

\* model or DEFAULT_LLM_MODEL
Preferred(m) == IF m # "" THEN m ELSE DEFAULT_LLM_MODEL

\* the candidate list without the de-duplication of the preferred model
ModelsToTry_keeps_duplicate(m) == <<Preferred(m)>> \o FALLBACK_MODELS

\* [preferred] + [m for m in FALLBACK_MODELS if m != preferred]
ModelsToTry(m) ==
    <<Preferred(m)>> \o SelectSeq(FALLBACK_MODELS, LAMBDA f : f # Preferred(m))

\* {"name":"x"}
T_object ==
    <<"{", "\"", "n", "a", "m", "e", "\"", ":", "\"", "x", "\"", "}">>

\* {"skills":[1,],}
T_trailing_comma ==
    <<"{", "\"", "s", "k", "i", "l", "l", "s", "\"", ":", "[", "1", ",", "]", ",", "}">>

\* ```json\n{"role":1}\n```
T_fenced ==
    <<Backtick, Backtick, Backtick, "j", "s", "o", "n", "\n", "{", "\"", "r", "o", "l", "e", "\"", ":", "1", "}", "\n", Backtick, Backtick, Backtick>>

\* [1]
T_list ==
    <<"[", "1", "]">>

\* 1
T_number ==
    <<"1">>

\* "x"
T_string ==
    <<"\"", "x", "\"">>

\* null
T_null ==
    <<"n", "u", "l", "l">>

\* oops {
T_prose ==
    <<"o", "o", "p", "s", " ", "{">>

NoText == <<>>

\* What the chat-completion endpoint can answer to one request.
\*   status    the HTTP status, 0 when no response arrived
\*   transport "ok", "timeout" (httpx.TimeoutException) or "connect"
\*             (httpx.ConnectError)
\*   body      "json" with the envelope below, or "not_json"
\*   envelope  "content" (choices[0].message.content is a string),
\*             "null_content", "empty_choices", "no_choices"
Response(st, tr, bd, env, txt) ==
    [status |-> st, transport |-> tr, body |-> bd, envelope |-> env, content |-> txt]

NoResponse == Response(0, "none", "none", "none", NoText)

ContentTexts == {T_object, T_trailing_comma, T_fenced, T_list, T_number,
                 T_string, T_null, T_prose}

Responses ==
    {Response(429, "ok", "json", "none", NoText),
     Response(500, "ok", "json", "none", NoText),
     Response(0, "timeout", "none", "none", NoText),
     Response(0, "connect", "none", "none", NoText),
     Response(200, "ok", "not_json", "none", NoText),
     Response(200, "ok", "json", "no_choices", NoText),
     Response(200, "ok", "json", "empty_choices", NoText),
     Response(200, "ok", "json", "null_content", NoText)}
    \cup {Response(200, "ok", "json", "content", txt) : txt \in ContentTexts}

\* _call_llm: the exception it raises ("None" when it returns) and the content
_call_llm(r) ==
    IF r.transport = "timeout" THEN [exc |-> "TimeoutException", content |-> NoText]
    ELSE IF r.transport = "connect" THEN [exc |-> "ConnectError", content |-> NoText]
    ELSE IF r.status = 429 THEN [exc |-> "HTTPStatusError", content |-> NoText]
    ELSE IF r.status # 200 THEN [exc |-> "HTTPStatusError", content |-> NoText]
    ELSE IF r.body = "not_json" THEN [exc |-> "JSONDecodeError", content |-> NoText]
    ELSE IF r.envelope = "no_choices" THEN [exc |-> "KeyError", content |-> NoText]
    ELSE IF r.envelope = "empty_choices"
    THEN [exc |-> "IndexError", content |-> NoText]
    ELSE IF r.envelope = "null_content"
    THEN [exc |-> "TypeError", content |-> NoText]
    ELSE [exc |-> "None", content |-> r.content]

\* except (httpx.HTTPStatusError, httpx.TimeoutException)
CaughtAsNetwork(exc) == exc \in {"HTTPStatusError", "TimeoutException"}

\* except (ValueError, KeyError); json.JSONDecodeError is a ValueError
CaughtAsParse(exc) == exc \in {"ValueError", "JSONDecodeError", "KeyError"}

AfterNormalise(normal) ==
    IF ~normal.ok THEN [exc |-> "ValueError", val |-> JNull]
    ELSE [exc |-> "None", val |-> normal.val]

\* after _fix_json_string: the ATS call returns the parsed value as it is
AfterParse(tk, user, parsed) ==
    IF ~parsed.ok THEN [exc |-> "ValueError", val |-> JNull]
    ELSE IF tk = "ats" THEN [exc |-> "None", val |-> parsed.val]
    ELSE AfterNormalise(_validate_and_normalise(parsed.val, user))

AfterCall(tk, user, call) ==
    IF call.exc # "None" THEN [exc |-> call.exc, val |-> JNull]
    ELSE AfterParse(tk, user, _fix_json_string(call.content))

\* The body of the try block for one model: the exception it ends with ("None"
\* when it reaches the return) and the value it returns.
TryBody(tk, user, r) == AfterCall(tk, user, _call_llm(r))

Tasks == {"portfolio", "ats"}

Usernames == {<<>>, <<"a", "l", "i", "c", "e">>}

NoError == [type |-> "None", model |-> ""]

NotRaised == [type |-> "None", last |-> NoError]

\* the model the loop is about to call
attempt_model == models_to_try[Len(called) + 1]

InLoop == pc = "loop" /\ Len(called) < Len(models_to_try)

\* lines 212-219 / 321-334: the call starts and builds its candidate list
Call ==
    /\ pc = "idle"
    /\ \E tk \in Tasks, m \in ModelArgs, u \in Usernames :
          /\ tk = "ats" => u = <<>>
          /\ task' = tk
          /\ model' = m
          /\ username' = u
          /\ models_to_try' = ModelsToTry(m)
    /\ pc' = "loop"
    /\ UNCHANGED <<called, last_response, last_error, sleeps, net_failures,
                   parse_failures, rate_limited, outcome, result, raised>>
    /\ UNCHANGED <<fx_vars, nm_vars, ch_vars, js_vars, jc_vars, up_vars, pv_vars>>

\* the try block stores its value but the loop goes on to the next model
Returns_without_leaving(r, tb) ==
    /\ tb.exc = "None"
    /\ last_response' = r
    /\ result' = tb.val
    /\ called' = Append(called, attempt_model)
    /\ outcome' = "returned"
    /\ UNCHANGED <<pc, task, model, username, models_to_try, last_error, sleeps,
                   net_failures, parse_failures, rate_limited, raised>>
    /\ UNCHANGED <<fx_vars, nm_vars, ch_vars, js_vars, jc_vars, up_vars, pv_vars>>

\* the try block runs to its return statement
Returns(r, tb) ==
    /\ tb.exc = "None"
    /\ last_response' = r
    /\ result' = tb.val
    /\ called' = Append(called, attempt_model)
    /\ outcome' = "returned"
    /\ pc' = "done"
    /\ UNCHANGED <<task, model, username, models_to_try, last_error, sleeps,
                   net_failures, parse_failures, rate_limited, raised>>
    /\ UNCHANGED <<fx_vars, nm_vars, ch_vars, js_vars, jc_vars, up_vars, pv_vars>>

AttemptReturns ==
    /\ InLoop
    /\ \E r \in Responses : Returns(r, TryBody(task, username, r))

\* the handler of the network failures without its asyncio.sleep(1)
NetworkFailure_without_sleep(r, tb) ==
    /\ CaughtAsNetwork(tb.exc)
    /\ last_response' = r
    /\ last_error' = [type |-> tb.exc, model |-> attempt_model]
    /\ rate_limited' = (rate_limited /\ r.status = 429)
    /\ called' = Append(called, attempt_model)
    /\ net_failures' = net_failures + 1
    /\ UNCHANGED <<pc, task, model, username, models_to_try, parse_failures,
                   outcome, result, raised, sleeps>>
    /\ UNCHANGED <<fx_vars, nm_vars, ch_vars, js_vars, jc_vars, up_vars, pv_vars>>

\* except (httpx.HTTPStatusError, httpx.TimeoutException): sleep, next model
NetworkFailure(r, tb) ==
    /\ CaughtAsNetwork(tb.exc)
    /\ last_response' = r
    /\ last_error' = [type |-> tb.exc, model |-> attempt_model]
    /\ rate_limited' = (rate_limited /\ r.status = 429)
    /\ called' = Append(called, attempt_model)
    /\ sleeps' = sleeps + 1
    /\ net_failures' = net_failures + 1
    /\ UNCHANGED <<pc, task, model, username, models_to_try, parse_failures,
                   outcome, result, raised>>
    /\ UNCHANGED <<fx_vars, nm_vars, ch_vars, js_vars, jc_vars, up_vars, pv_vars>>

AttemptNetworkFailure ==
    /\ InLoop
    /\ \E r \in Responses : NetworkFailure(r, TryBody(task, username, r))

\* except (ValueError, KeyError): next model at once
ParseFailure(r, tb) ==
    /\ CaughtAsParse(tb.exc)
    /\ last_response' = r
    /\ last_error' = [type |-> tb.exc, model |-> attempt_model]
    /\ rate_limited' = FALSE
    /\ called' = Append(called, attempt_model)
    /\ parse_failures' = parse_failures + 1
    /\ UNCHANGED <<pc, task, model, username, models_to_try, sleeps,
                   net_failures, outcome, result, raised>>
    /\ UNCHANGED <<fx_vars, nm_vars, ch_vars, js_vars, jc_vars, up_vars, pv_vars>>

AttemptParseFailure ==
    /\ InLoop
    /\ \E r \in Responses : ParseFailure(r, TryBody(task, username, r))

\* an exception neither handler names leaves the function
Raises(r, tb) ==
    /\ tb.exc # "None"
    /\ ~CaughtAsNetwork(tb.exc)
    /\ ~CaughtAsParse(tb.exc)
    /\ last_response' = r
    /\ raised' = [type |-> tb.exc, last |-> last_error]
    /\ called' = Append(called, attempt_model)
    /\ outcome' = "raised"
    /\ pc' = "done"
    /\ UNCHANGED <<task, model, username, models_to_try, last_error, sleeps,
                   net_failures, parse_failures, rate_limited, result>>
    /\ UNCHANGED <<fx_vars, nm_vars, ch_vars, js_vars, jc_vars, up_vars, pv_vars>>

AttemptRaises ==
    /\ InLoop
    /\ \E r \in Responses : Raises(r, TryBody(task, username, r))

\* lines 238 / 362-364: the loop ran out of models
AllModelsFailed ==
    /\ pc = "loop"
    /\ Len(called) = Len(models_to_try)
    /\ raised' = [type |-> "RuntimeError", last |-> last_error]
    /\ outcome' = "raised"
    /\ pc' = "done"
    /\ UNCHANGED <<task, model, username, models_to_try, called, last_response,
                   last_error, sleeps, net_failures, parse_failures, rate_limited,
                   result>>
    /\ UNCHANGED <<fx_vars, nm_vars, ch_vars, js_vars, jc_vars, up_vars, pv_vars>>

OrchIdle ==
    /\ pc = "idle"
    /\ task = "portfolio"
    /\ model = ""
    /\ username = <<>>
    /\ models_to_try = <<>>
    /\ called = <<>>
    /\ last_response = NoResponse
    /\ last_error = NoError
    /\ sleeps = 0
    /\ net_failures = 0
    /\ parse_failures = 0
    /\ rate_limited = TRUE
    /\ outcome = "none"
    /\ result = JNull
    /\ raised = NotRaised

OrchNext ==
    \/ Call
    \/ AttemptReturns
    \/ AttemptNetworkFailure
    \/ AttemptParseFailure
    \/ AttemptRaises
    \/ AllModelsFailed


\* ------------------------------------------------------------------------
\* Inputs of _fix_json_string: object texts, with a trailing comma, in fences
\* ------------------------------------------------------------------------

\* members per generated object
MaxMembers == 2

\* spaces between an inserted trailing comma and the bracket it precedes
MaxPad == 1

\* 1
V_number == <<"1">>

\* "x,}"
V_comma_brace == <<"\"", "x", ",", "}", "\"">>

\* ["y, ]", 2]
V_list == <<"[", "\"", "y", ",", " ", "]", "\"", ",", " ", "2", "]">>

\* {"k":"```"}
V_nested ==
    <<"{", "\"", "k", "\"", ":", "\"", Backtick, Backtick, Backtick, "\"", "}">>

\* {}
V_empty == <<"{", "}">>

ValueTexts == {V_number, V_comma_brace, V_list, V_nested, V_empty}

\* "k<i>"
KeyText(i) == <<"\"", "k", Digits[i + 1], "\"">>

\* the members "k1":v1,"k2":v2,... from the i-th on; pretty puts each on a line
RECURSIVE MembersText(_, _, _)
MembersText(vals, i, pretty) ==
    IF i > Len(vals) THEN <<>>
    ELSE (IF i > 1 THEN <<",">> ELSE <<>>)
         \o (IF pretty THEN <<"\n", " ", " ">> ELSE <<>>)
         \o KeyText(i) \o <<":">> \o (IF pretty THEN <<" ">> ELSE <<>>) \o vals[i]
         \o MembersText(vals, i + 1, pretty)

\* the text of the object with these member values
ObjectText(vals, pretty) ==
    <<"{">> \o MembersText(vals, 1, pretty)
            \o (IF pretty /\ vals # <<>> THEN <<"\n">> ELSE <<>>) \o <<"}">>

BaseTexts ==
    {ObjectText(vals, pretty) :
        vals \in UNION {[1..m -> ValueTexts] : m \in 0..MaxMembers},
        pretty \in BOOLEAN}

\* p is inside a string literal of t: an odd number of quotes precede it
InString(t, p) == Cardinality({k \in 1..(p - 1) : t[k] = "\""}) % 2 = 1

\* index of the last non-space character before p, 0 when there is none
RECURSIVE PrevToken(_, _)
PrevToken(t, p) ==
    IF p <= 1 THEN 0
    ELSE IF IsSpace(t[p - 1]) THEN PrevToken(t, p - 1)
    ELSE p - 1

\* the closing braces and brackets of t that end a non-empty object or list
ClosingSites(t) ==
    {p \in 1..Len(t) :
        /\ t[p] \in {"}", "]"}
        /\ ~InString(t, p)
        /\ PrevToken(t, p) # 0
        /\ t[PrevToken(t, p)] \notin {"{", "[", ","}}

Spaces(n) == [k \in 1..n |-> " "]

\* t with one trailing comma, and n spaces, after the last member before p
WithTrailingComma(t, p, n) ==
    SubSeq(t, 1, PrevToken(t, p)) \o <<",">> \o Spaces(n)
        \o SubSeq(t, PrevToken(t, p) + 1, Len(t))

FenceJson == Fence \o <<"j", "s", "o", "n">>

\* the opening and closing fence lines an LLM puts around its JSON
FenceStyles ==
    {<<FenceJson \o <<"\n">>, <<"\n">> \o Fence>>,
     <<Fence \o <<"\n">>, <<"\n">> \o Fence>>,
     <<FenceJson, Fence>>,
     <<FenceJson \o <<" ", "\n">>, <<"\n">> \o Fence \o <<" ", "\n">>>>,
     <<Fence \o <<"\n">>, <<"\n">> \o Fence \o <<"\n">>>>}

\* the sentence an LLM puts around its JSON: Here: <t> Done.
InProse(t) ==
    <<"H", "e", "r", "e", ":", " ">> \o t \o <<" ", "D", "o", "n", "e", ".">>

FixInputs ==
    {[kind |-> "plain", base |-> b, text |-> b] : b \in BaseTexts}
    \cup UNION {{[kind |-> "comma", base |-> b, text |-> WithTrailingComma(b, p, n)] :
                    p \in ClosingSites(b), n \in 0..MaxPad} : b \in BaseTexts}
    \cup {[kind |-> "fence", base |-> b, text |-> f[1] \o b \o f[2]] :
             b \in BaseTexts, f \in FenceStyles}
    \cup {[kind |-> "prose", base |-> b, text |-> InProse(b)] : b \in BaseTexts}
    \cup UNION {{[kind |-> "prose_comma", base |-> b,
                  text |-> InProse(WithTrailingComma(b, p, n))] :
                    p \in ClosingSites(b), n \in 0..MaxPad} : b \in BaseTexts}

FixIdle ==
    /\ fx_pc = "input"
    /\ fx_kind = "plain"
    /\ fx_base = V_empty
    /\ fx_text = V_empty
    /\ fx_out = FixError(<<>>)
    /\ fx_base_out = FixError(<<>>)

\* the caller's text argument
FixCalled ==
    /\ fx_pc = "input"
    /\ \E i \in FixInputs :
          /\ fx_kind = i.kind
          /\ fx_base = i.base
          /\ fx_text = i.text
    /\ fx_out = FixError(<<>>)
    /\ fx_base_out = FixError(<<>>)

\* _fix_json_string(text), and of the base text it is compared with
FixJsonString ==
    /\ fx_pc = "input"
    /\ fx_out' = _fix_json_string(fx_text)
    /\ fx_base_out' = _fix_json_string(fx_base)
    /\ fx_pc' = "done"
    /\ UNCHANGED <<fx_kind, fx_base, fx_text>>
    /\ UNCHANGED <<orch_vars, nm_vars, ch_vars, js_vars, jc_vars, up_vars, pv_vars>>

\* ------------------------------------------------------------------------
\* Inputs of _validate_and_normalise
\* ------------------------------------------------------------------------

\* keys present in a generated data dict
MaxKeys == 1

K_extra == <<"e", "x", "t", "r", "a">>

SchemaKeys == <<K_name, K_role, K_tagline, K_bio, K_skills, K_projects,
                K_experience, K_education, K_achievements, K_contact>>

DataKeys == SchemaKeys \o <<K_extra>>

X == <<"x">>

SampleValues ==
    {JNull, JBool(FALSE), JNum(0), JNum(7), JStr(<<>>), JStr(X),
     JList(<<>>), JList(<<JStr(X)>>), JDict(<<>>, <<>>), JDict(<<X>>, <<JStr(X)>>)}

\* the dict with the keys of DataKeys at the positions ps, valued by f
DictOf(ps, f) ==
    JDict(SelectSeq(DataKeys, LAMBDA k : \E i \in ps : DataKeys[i] = k),
          [n \in 1..Cardinality(ps) |->
              f[CHOOSE i \in ps : Cardinality({j \in ps : j <= i}) = n]])

DataInputs ==
    SampleValues
    \cup UNION {{DictOf(ps, f) : f \in [ps -> SampleValues]} :
                   ps \in {q \in SUBSET (1..Len(DataKeys)) : Cardinality(q) <= MaxKeys}}

NormIdle ==
    /\ nm_pc = "input"
    /\ nm_data = JNull
    /\ nm_user = <<>>
    /\ nm_out = [ok |-> FALSE, val |-> JNull]

\* the caller's arguments
NormCalled ==
    /\ nm_pc = "input"
    /\ nm_data \in DataInputs
    /\ nm_user \in Usernames
    /\ nm_out = [ok |-> FALSE, val |-> JNull]

ValidateAndNormalise ==
    /\ nm_pc = "input"
    /\ nm_out' = _validate_and_normalise(nm_data, nm_user)
    /\ nm_pc' = "done"
    /\ UNCHANGED <<nm_data, nm_user>>
    /\ UNCHANGED <<orch_vars, fx_vars, ch_vars, js_vars, jc_vars, up_vars, pv_vars>>

\* ------------------------------------------------------------------------
\* rag_engine: _call_gemini, detect_intent, the three answer branches, chat
\* ------------------------------------------------------------------------

INTERVIEW == <<"I", "N", "T", "E", "R", "V", "I", "E", "W">>

ATS == <<"A", "T", "S">>

RAG == <<"R", "A", "G">>

\* if intent in ["INTERVIEW", "ATS", "RAG"]
IntentLabels == {INTERVIEW, ATS, RAG}

\* What the Gemini endpoint does with one request:
\*   transport "ok", "timeout", "connect"
\*   status    the HTTP status
\*   envelope  "text" (candidates[0].content.parts[0].text is there),
\*             "not_json", "no_candidates", "empty_candidates", "no_parts"
Gemini(tr, st, env, txt) ==
    [transport |-> tr, status |-> st, envelope |-> env, text |-> txt]

\* the requests that give no text; none stands for the absent text
GeminiFailures(none) ==
    {Gemini("timeout", 0, "none", none),
     Gemini("connect", 0, "none", none),
     Gemini("ok", 429, "none", none),
     Gemini("ok", 500, "none", none),
     Gemini("ok", 200, "not_json", none),
     Gemini("ok", 200, "no_candidates", none),
     Gemini("ok", 200, "empty_candidates", none),
     Gemini("ok", 200, "no_parts", none)}

\* replies of the model to the intent prompt
IntentReplies ==
    {INTERVIEW, ATS, RAG,
     <<"i", "n", "t", "e", "r", "v", "i", "e", "w">>,
     <<" ", "a", "t", "s", "\n">>,
     <<"R", "a", "g">>,
     <<" ", " ", "I", "N", "T", "E", "R", "V", "I", "E", "W", " ">>,
     <<"A", "T", "S", ".">>,
     <<"I", "N", "T", "E", "R", "V", "I", "E", "W", " ", "A", "T", "S">>,
     <<"R", "E", "S", "U", "M", "E">>,
     <<>>}

IntentResponses ==
    GeminiFailures(<<>>) \cup {Gemini("ok", 200, "text", t) : t \in IntentReplies}

\* replies of the model to an answer prompt
AnswerReplies == {"**Technical Questions** ...", "**Overall ATS Score**: 70/100", ""}

AnswerResponses ==
    GeminiFailures("") \cup {Gemini("ok", 200, "text", t) : t \in AnswerReplies}

NoIntent == Gemini("none", 0, "none", <<>>)

NoReply == Gemini("none", 0, "none", "")

\* _call_gemini: the exception it raises ("None" when it returns) and the text
_call_gemini(g) ==
    IF g.transport = "timeout" THEN [exc |-> "TimeoutException", text |-> g.text]
    ELSE IF g.transport = "connect" THEN [exc |-> "ConnectError", text |-> g.text]
    ELSE IF g.status >= 400 THEN [exc |-> "HTTPStatusError", text |-> g.text]
    ELSE IF g.envelope = "not_json" THEN [exc |-> "JSONDecodeError", text |-> g.text]
    ELSE IF g.envelope = "no_candidates" THEN [exc |-> "KeyError", text |-> g.text]
    ELSE IF g.envelope = "empty_candidates"
    THEN [exc |-> "IndexError", text |-> g.text]
    ELSE IF g.envelope = "no_parts" THEN [exc |-> "KeyError", text |-> g.text]
    ELSE [exc |-> "None", text |-> g.text]

\* intent = response.strip().upper()
IntentOf(response) == Upper(Strip(response))

\* the reply is returned as the intent without the membership test
IntentChecked_unchecked(intent) == intent

\* if intent in [...]: return intent;  otherwise fall through to return "RAG"
IntentChecked(intent) == IF intent \in IntentLabels THEN intent ELSE RAG

\* detect_intent: every exception of the call is caught and gives "RAG"
IntentAfterCall(call) ==
    IF call.exc # "None" THEN RAG ELSE IntentChecked(IntentOf(call.text))

detect_intent(g) == IntentAfterCall(_call_gemini(g))

A_interview ==
    "Sorry, I couldn't generate interview questions at this time. Please try again."

A_ats == "Sorry, I couldn't run the ATS analysis at this time. Please try again."

A_rag ==
    "I'm sorry, I'm having trouble connecting to my brain right now. Please try again in a few seconds."

\* every branch answers with one apology, the one of the RAG branch
Apology_of_rag_everywhere(branch) == A_rag

\* the string each branch's except clause returns
Apology(branch) ==
    IF branch = "interview" THEN A_interview
    ELSE IF branch = "ats" THEN A_ats
    ELSE A_rag

\* try: return await _call_gemini(prompt)  except Exception: return <apology>
AnswerAfterCall(branch, call) ==
    IF call.exc # "None" THEN Apology(branch) ELSE call.text

AnswerOf(branch, g) == AnswerAfterCall(branch, _call_gemini(g))

\* ------------------------------------------------------------------------
\* rag_engine.chat: the context built from the portfolio (lines 155-222)
\* ------------------------------------------------------------------------

K_company == <<"c", "o", "m", "p", "a", "n", "y">>

K_duration == <<"d", "u", "r", "a", "t", "i", "o", "n">>

K_description == <<"d", "e", "s", "c", "r", "i", "p", "t", "i", "o", "n">>

K_title == <<"t", "i", "t", "l", "e">>

K_technologies == <<"t", "e", "c", "h", "n", "o", "l", "o", "g", "i", "e", "s">>

K_degree == <<"d", "e", "g", "r", "e", "e">>

K_institution == <<"i", "n", "s", "t", "i", "t", "u", "t", "i", "o", "n">>

K_year == <<"y", "e", "a", "r">>

K_email == <<"e", "m", "a", "i", "l">>

K_content == <<"c", "o", "n", "t", "e", "n", "t">>

\* sep.join(texts[i:]), with sep before every text but the first
RECURSIVE Join(_, _, _)
Join(texts, sep, i) ==
    IF i > Len(texts) THEN <<>>
    ELSE (IF i > 1 THEN sep ELSE <<>>) \o texts[i] \o Join(texts, sep, i + 1)

CommaSpace == <<",", " ">>

Newline == <<"\n">>

\* str.join raises TypeError on an item that is not a str
AllStr(xs) == \A i \in 1..Len(xs) : xs[i].t = "str"

StrItems(xs) == [i \in 1..Len(xs) |-> xs[i].s]

\* the items of v when the code's test "v and isinstance(v, list)" passes
ListOf(v) == IF v.t = "list" /\ Truthy(v) THEN v.items ELSE <<>>

\* the entries the loops keep: if isinstance(e, dict)
Dicts(xs) == SelectSeq(xs, LAMBDA e : e.t = "dict")

\* f"{e.get(k, '')}"
Field(e, k) == Str(DictGet(e, k, JStr(<<>>)))

\* lines 157-162: if portfolio_data.get(key): append f"<label>{value}"
Labelled(label, v) == IF Truthy(v) THEN <<label \o Str(v)>> ELSE <<>>

\* the skills are joined without the space after the comma
SkillsPart_joined_by_comma(skills) ==
    IF ListOf(skills) = <<>> THEN <<>>
    ELSE <<<<"S", "k", "i", "l", "l", "s", ":", " ">> \o Join(StrItems(ListOf(skills)), <<",">>, 1)>>

\* lines 165-167
SkillsPart(skills) ==
    IF ListOf(skills) = <<>> THEN <<>>
    ELSE <<<<"S", "k", "i", "l", "l", "s", ":", " ">> \o Join(StrItems(ListOf(skills)), CommaSpace, 1)>>

SkillsRaise(skills) == ~AllStr(ListOf(skills))

\* line 176
ExperienceLine(e) ==
    <<" ", " ", "-", " ">> \o Field(e, K_role) \o <<" ", "a", "t", " ">>
        \o Field(e, K_company) \o <<" ", "(">> \o Field(e, K_duration)
        \o <<")", ":", " ">> \o Field(e, K_description)

\* line 187: the technologies joined when they are a list, else ""
Technologies(p) ==
    IF DictGet(p, K_technologies, JNull).t = "list"
    THEN Join(StrItems(DictGet(p, K_technologies, JNull).items), CommaSpace, 1)
    ELSE <<>>

TechnologiesRaise(p) ==
    /\ DictGet(p, K_technologies, JNull).t = "list"
    /\ ~AllStr(DictGet(p, K_technologies, JNull).items)

\* line 189
ProjectLine(p) ==
    <<" ", " ", "-", " ">> \o Field(p, K_title) \o <<":", " ">>
        \o Field(p, K_description)
        \o <<" ", "[", "T", "e", "c", "h", "n", "o", "l", "o", "g", "i", "e", "s", ":",
            " ">>
        \o Technologies(p) \o <<"]">>

\* line 201
EducationLine(ed) ==
    <<" ", " ", "-", " ">> \o Field(ed, K_degree) \o <<" ", "f", "r", "o", "m", " ">>
        \o Field(ed, K_institution) \o <<" ", "(">> \o Field(ed, K_year) \o <<")">>

\* if lines: context_parts.append(header + "\n".join(lines))
Section(header, lines) ==
    IF lines = <<>> THEN <<>> ELSE <<header \o Join(lines, Newline, 1)>>

ExperiencePart(v) ==
    Section(<<"E", "x", "p", "e", "r", "i", "e", "n", "c", "e", ":", "\n">>,
            [i \in 1..Len(Dicts(ListOf(v))) |-> ExperienceLine(Dicts(ListOf(v))[i])])

ProjectsPart(v) ==
    Section(<<"P", "r", "o", "j", "e", "c", "t", "s", ":", "\n">>,
            [i \in 1..Len(Dicts(ListOf(v))) |-> ProjectLine(Dicts(ListOf(v))[i])])

ProjectsRaise(v) ==
    \E i \in 1..Len(Dicts(ListOf(v))) : TechnologiesRaise(Dicts(ListOf(v))[i])

EducationPart(v) ==
    Section(<<"E", "d", "u", "c", "a", "t", "i", "o", "n", ":", "\n">>,
            [i \in 1..Len(Dicts(ListOf(v))) |-> EducationLine(Dicts(ListOf(v))[i])])

\* f"  - {a}" for a in achievements if a
AchievementLines(xs) ==
    [i \in 1..Len(SelectSeq(xs, Truthy)) |->
        <<" ", " ", "-", " ">> \o Str(SelectSeq(xs, Truthy)[i])]

\* lines 207-209: appended for every non-empty list, also when no item is kept
AchievementsPart(v) ==
    IF ListOf(v) = <<>> THEN <<>>
    ELSE <<<<"A", "c", "h", "i", "e", "v", "e", "m", "e", "n", "t", "s", ":", "\n">> \o Join(AchievementLines(ListOf(v)), Newline, 1)>>

\* the positions of the contact entries with a value: ... if v
ContactKept(c) == SelectSeq([i \in 1..Len(c.keys) |-> i], LAMBDA i : Truthy(c.items[i]))

\* line 214: ", ".join(f"{k}: {v}" for k, v in contact.items() if v)
ContactStr(c) ==
    Join([n \in 1..Len(ContactKept(c)) |->
             c.keys[ContactKept(c)[n]] \o <<":", " ">> \o Str(c.items[ContactKept(c)[n]])],
         CommaSpace, 1)

\* lines 212-216
ContactPart(v) ==
    IF v.t # "dict" THEN <<>>
    ELSE IF ContactStr(v) = <<>> THEN <<>>
    ELSE <<<<"C", "o", "n", "t", "a", "c", "t", " ", "I", "n", "f", "o", ":", " ">> \o ContactStr(v)>>

\* context_parts at line 218
ContextParts(p) ==
    Labelled(<<"N", "a", "m", "e", ":", " ">>, DictGet(p, K_name, JNull))
        \o Labelled(<<"R", "o", "l", "e", ":", " ">>, DictGet(p, K_role, JNull))
        \o Labelled(<<"B", "i", "o", ":", " ">>, DictGet(p, K_bio, JNull))
        \o SkillsPart(DictGet(p, K_skills, JNull))
        \o ExperiencePart(DictGet(p, K_experience, JNull))
        \o ProjectsPart(DictGet(p, K_projects, JNull))
        \o EducationPart(DictGet(p, K_education, JNull))
        \o AchievementsPart(DictGet(p, K_achievements, JNull))
        \o ContactPart(DictGet(p, K_contact, JNull))

\* the str.join calls of lines 167 and 187 raise TypeError
ContextRaises(p) ==
    \/ SkillsRaise(DictGet(p, K_skills, JNull))
    \/ ProjectsRaise(DictGet(p, K_projects, JNull))

\* the characters of the raw text the fallback keeps
ContextLimit == 4000

\* (resume_text or "")[:4000]
RawContext(resume) ==
    IF Truthy(resume) THEN SubSeq(resume.s, 1, Min(ContextLimit, Len(resume.s)))
    ELSE <<>>

\* sections below which the raw text is used: if len(context_parts) < 3
MinSections == 3

\* any section count takes the structured block
ContextOf_always_structured(parts, resume) == Join(parts, <<"\n", "\n">>, 1)

\* lines 219-222
ContextOf(parts, resume) ==
    IF Len(parts) < MinSections THEN RawContext(resume)
    ELSE Join(parts, <<"\n", "\n">>, 1)

\* lines 155-222: the exception raised ("None" when none) and the context
BuildContext(p, resume) ==
    IF ContextRaises(p) THEN [exc |-> "TypeError", text |-> <<>>]
    ELSE [exc |-> "None", text |-> ContextOf(ContextParts(p), resume)]

\* ------------------------------------------------------------------------
\* rag_engine.chat: the prompt of the RAG branch (lines 237-256)
\* ------------------------------------------------------------------------

\* lines 238-241, up to the context
SystemPromptHead ==
    <<"Y", "o", "u", " ", "a", "r", "e", " ", "a", "n", " ", "A", "I", " ", "a", "s",
      "s", "i", "s", "t", "a", "n", "t", " ", "r", "e", "p", "r", "e", "s", "e", "n",
      "t", "i", "n", "g", " ", "a", " ", "p", "r", "o", "f", "e", "s", "s", "i", "o",
      "n", "a", "l", "'", "s", " ", "p", "o", "r", "t", "f", "o", "l", "i", "o", ".",
      " ", "A", "n", "s", "w", "e", "r", " ", "q", "u", "e", "s", "t", "i", "o", "n",
      "s", " ", "a", "b", "o", "u", "t", " ", "t", "h", "e", " ", "c", "a", "n", "d",
      "i", "d", "a", "t", "e", " ", "b", "a", "s", "e", "d", " ", "o", "n", " ", "t",
      "h", "e", "i", "r", " ", "r", "e", "s", "u", "m", "e", " ", "i", "n", "f", "o",
      "r", "m", "a", "t", "i", "o", "n", " ", "p", "r", "o", "v", "i", "d", "e", "d",
      " ", "b", "e", "l", "o", "w", ".", " ", "B", "e", " ", "c", "o", "n", "c", "i",
      "s", "e", ",", " ", "p", "r", "o", "f", "e", "s", "s", "i", "o", "n", "a", "l",
      ",", " ", "a", "n", "d", " ", "h", "e", "l", "p", "f", "u", "l", ".", " ", "I",
      "f", " ", "i", "n", "f", "o", "r", "m", "a", "t", "i", "o", "n", " ", "i", "s",
      " ", "n", "o", "t", " ", "a", "v", "a", "i", "l", "a", "b", "l", "e", ",", " ",
      "s", "a", "y", " ", "s", "o", " ", "p", "o", "l", "i", "t", "e", "l", "y", ".",
      "\n", "\n", "=", "=", "=", " ", "C", "A", "N", "D", "I", "D", "A", "T", "E", " ",
      "P", "O", "R", "T", "F", "O", "L", "I", "O", " ", "I", "N", "F", "O", " ", "=",
      "=", "=", "\n">>

\* line 241, after the context
SystemPromptEnd == <<"\n", "=", "=", "=", " ", "E", "N", "D", " ", "I", "N", "F", "O", " ", "=", "=",
      "=">>

\* lines 245-246
HistoryHeader ==
    <<"\n", "\n", "-", "-", "-", " ", "C", "o", "n", "v", "e", "r", "s", "a", "t", "i",
      "o", "n", " ", "H", "i", "s", "t", "o", "r", "y", " ", "-", "-", "-", "\n">>

\* the turns of the history the loop visits
HistoryWindow == 6

\* the whole history is visited
HistoryTail_whole(h) == ListOf(h)

\* lines 249-250: if conversation_history: ... conversation_history[-6:]
HistoryTail(h) ==
    IF Len(ListOf(h)) <= HistoryWindow THEN ListOf(h)
    ELSE SubSeq(ListOf(h), Len(ListOf(h)) - HistoryWindow + 1, Len(ListOf(h)))

K_user == <<"u", "s", "e", "r">>

\* turn.get("role", "user")
TurnRole(turn) == DictGet(turn, K_role, JStr(K_user))

\* turn.get("content", "")
TurnContent(turn) == DictGet(turn, K_content, JStr(<<>>))

\* turn.get on a turn that is no dict, role.upper() on a role that is no str
TurnRaises(turn) ==
    \/ turn.t # "dict"
    \/ Truthy(TurnContent(turn)) /\ TurnRole(turn).t # "str"

\* lines 253-254: if content: f"{role.upper()}: {content}\n"
TurnLine(turn) ==
    IF Truthy(TurnContent(turn))
    THEN Upper(TurnRole(turn).s) \o <<":", " ">> \o Str(TurnContent(turn)) \o Newline
    ELSE <<>>

HistoryLines(turns) == Join([i \in 1..Len(turns) |-> TurnLine(turns[i])], <<>>, 1)

\* line 256
PromptEnd(message) ==
    <<"\n", "U", "S", "E", "R", ":", " ">> \o message
        \o <<"\n", "A", "S", "S", "I", "S", "T", "A", "N", "T", ":">>

\* lines 237-256: the exception raised ("None" when none) and the prompt
RagPrompt(context, h, message) ==
    IF \E i \in 1..Len(HistoryTail(h)) : TurnRaises(HistoryTail(h)[i])
    THEN [exc |-> "AttributeError", text |-> <<>>]
    ELSE [exc |-> "None",
          text |-> SystemPromptHead \o context \o SystemPromptEnd \o HistoryHeader
                       \o HistoryLines(HistoryTail(h)) \o PromptEnd(message)]

M_skills == <<"W", "h", "a", "t", " ", "a", "r", "e", " ", "m", "y", " ", "m", "a", "i", "n",
      " ", "s", "k", "i", "l", "l", "s", "?">>

Messages ==
    {M_skills,
     <<"S", "u", "g", "g", "e", "s", "t", " ", "i", "n", "t", "e", "r", "v", "i", "e",
       "w", " ", "q", "u", "e", "s", "t", "i", "o", "n", "s">>,
     <<"C", "h", "e", "c", "k", " ", "m", "y", " ", "A", "T", "S", " ", "s", "c", "o",
       "r", "e">>}

NoResult == [answer |-> "", mode |-> <<>>]

\* main.py lines 445-455: the dict chat_endpoint builds from the stored columns
PortfolioOf(name, role, bio, skills, projects, experience, education, achievements, contact) ==
    JDict(<<K_name, K_role, K_bio, K_skills, K_projects, K_experience, K_education,
            K_achievements, K_contact>>,
          <<name, role, bio, skills, projects, experience, education,
            achievements, contact>>)

Python == JStr(<<"P", "y", "t", "h", "o", "n">>)

Go == JStr(<<"G", "o">>)

Dev == JStr(<<"D", "e", "v">>)

Ann == JStr(<<"A", "n", "n">>)

SkillsPythonGo == JList(<<Python, Go>>)

\* values of the stored columns: absent, empty, well formed, malformed
NameValues == {JNull, Ann}

RoleValues == {JNull, Dev}

BioValues == {JStr(<<>>), JStr(<<"B", "i", "o">>)}

SkillsValues == {JNull, SkillsPythonGo, JList(<<Python, JNum(1)>>)}

ExperienceValues ==
    {JNull, JList(<<JStr(<<"x">>)>>),
     JList(<<JDict(<<K_role, K_company>>, <<Dev, JStr(<<"A", "c", "m", "e">>)>>)>>)}

ProjectsValues ==
    {JList(<<>>),
     JList(<<JDict(<<K_title, K_technologies>>, <<JStr(<<"P">>), JList(<<Go>>)>>)>>),
     JList(<<JDict(<<K_title, K_technologies>>, <<JStr(<<"P">>), JList(<<JNum(1)>>)>>)>>)}

EducationValues == {JNull, JList(<<JDict(<<K_degree>>, <<JStr(<<"B", "S">>)>>)>>)}

AchievementsValues == {JNull, JList(<<JStr(<<>>)>>), JList(<<JStr(<<"W", "o", "n">>)>>)}

ContactValues ==
    {JNull, JDict(<<K_email>>, <<JStr(<<>>)>>),
     JDict(<<K_email>>, <<JStr(<<"a", "@", "b">>)>>)}

Portfolios ==
    {PortfolioOf(nm, rl, bi, sk, pr, ex, ed, ac, co) :
        nm \in NameValues, rl \in RoleValues, bi \in BioValues, sk \in SkillsValues,
        pr \in ProjectsValues, ex \in ExperienceValues, ed \in EducationValues,
        ac \in AchievementsValues, co \in ContactValues}

\* three sections; the skills alone; a skill that is no string
P_three == PortfolioOf(Ann, Dev, JNull, SkillsPythonGo, JNull, JNull, JNull, JNull, JNull)

P_sparse ==
    PortfolioOf(JNull, JNull, JNull, SkillsPythonGo, JNull, JNull, JNull, JNull, JNull)

P_bad_skill ==
    PortfolioOf(Ann, Dev, JNull, JList(<<Python, JNum(1)>>), JNull, JNull, JNull,
                JNull, JNull)

RawResume == JStr(<<"A", "n", "n", ",", " ", "d", "e", "v", "e", "l", "o", "p", "e", "r">>)

\* a text of n characters whose characters past the limit differ from the others
LongResume(n) == JStr([i \in 1..n |-> IF i <= ContextLimit THEN "r" ELSE "z"])

ShortResumes == {JNull, JStr(<<>>), RawResume}

LongResumes == {LongResume(ContextLimit), LongResume(ContextLimit + 1)}

\* turns in a generated history
MaxTurns == 7

K_assistant == <<"a", "s", "s", "i", "s", "t", "a", "n", "t">>

\* the i-th turn: the roles alternate and the content names the position
Turn(i) ==
    JDict(<<K_role, K_content>>,
          <<JStr(IF i % 2 = 1 THEN K_user ELSE K_assistant), JStr(<<"m", Digits[i + 1]>>)>>)

TurnKinds == {"empty", "no_role", "no_content", "no_dict", "bad_role"}

\* the i-th turn with one thing about it changed
TurnOfKind(i, kind) ==
    CASE kind = "empty" -> JDict(<<K_role, K_content>>, <<JStr(K_user), JStr(<<>>)>>)
      [] kind = "no_role" -> JDict(<<K_content>>, <<JStr(<<"m", Digits[i + 1]>>)>>)
      [] kind = "no_content" -> JDict(<<K_role>>, <<JStr(K_user)>>)
      [] kind = "no_dict" -> JStr(<<"m", Digits[i + 1]>>)
      [] kind = "bad_role" ->
            JDict(<<K_role, K_content>>, <<JNum(1), JStr(<<"m", Digits[i + 1]>>)>>)

\* n turns, the p-th of the given kind (none when p = 0)
HistoryOf(n, p, kind) ==
    JList([i \in 1..n |-> IF i = p THEN TurnOfKind(i, kind) ELSE Turn(i)])

Histories ==
    {JNull}
    \cup {HistoryOf(n, 0, "empty") : n \in 0..MaxTurns}
    \cup {HistoryOf(n, p, kind) : n \in 1..MaxTurns, p \in 1..MaxTurns, kind \in TurnKinds}

ChatIdle ==
    /\ ch_pc = "start"
    /\ ch_message = <<>>
    /\ ch_portfolio = JNull
    /\ ch_resume = JNull
    /\ ch_history = JNull
    /\ ch_context = <<>>
    /\ ch_prompt = <<>>
    /\ ch_raised = "None"
    /\ ch_intent = NoIntent
    /\ ch_mode = <<>>
    /\ ch_branch = "none"
    /\ ch_reply = NoReply
    /\ ch_result = NoResult

\* chat has been called and has done nothing yet
ChatStarted ==
    /\ ch_pc = "start"
    /\ ch_context = <<>>
    /\ ch_prompt = <<>>
    /\ ch_raised = "None"
    /\ ch_intent = NoIntent
    /\ ch_mode = <<>>
    /\ ch_branch = "none"
    /\ ch_reply = NoReply
    /\ ch_result = NoResult

\* chat is called: every message, a few portfolios and histories
ChatCalled ==
    /\ ChatStarted
    /\ ch_message \in Messages
    /\ ch_portfolio \in {P_three, P_sparse, P_bad_skill}
    /\ ch_resume = RawResume
    /\ ch_history \in {JNull, HistoryOf(2, 0, "empty"), HistoryOf(2, 1, "no_dict")}

\* chat is called: every portfolio, with the short and the long resume texts
ContextCalled ==
    /\ ChatStarted
    /\ ch_message = M_skills
    /\ \/ ch_portfolio \in Portfolios /\ ch_resume \in ShortResumes
       \/ ch_portfolio \in {P_three, P_sparse} /\ ch_resume \in LongResumes
    /\ ch_history = JNull

\* chat is called: every history
HistoryCalled ==
    /\ ChatStarted
    /\ ch_message = M_skills
    /\ ch_portfolio = P_three
    /\ ch_resume = RawResume
    /\ ch_history \in Histories

\* lines 155-222: the context is built, or a str.join raises
ChatContext ==
    /\ ch_pc = "start"
    /\ IF BuildContext(ch_portfolio, ch_resume).exc = "None"
       THEN /\ ch_context' = BuildContext(ch_portfolio, ch_resume).text
            /\ ch_pc' = "intent"
            /\ UNCHANGED ch_raised
       ELSE /\ ch_raised' = BuildContext(ch_portfolio, ch_resume).exc
            /\ ch_pc' = "raised"
            /\ UNCHANGED ch_context
    /\ UNCHANGED <<ch_message, ch_portfolio, ch_resume, ch_history, ch_prompt,
                   ch_intent, ch_mode, ch_branch, ch_reply, ch_result>>
    /\ UNCHANGED <<orch_vars, fx_vars, nm_vars, js_vars, jc_vars, up_vars, pv_vars>>

\* line 225: mode = await detect_intent(user_message)
DetectIntent ==
    /\ ch_pc = "intent"
    /\ \E g \in IntentResponses :
          /\ ch_intent' = g
          /\ ch_mode' = detect_intent(g)
    /\ ch_pc' = "dispatch"
    /\ UNCHANGED <<ch_message, ch_portfolio, ch_resume, ch_history, ch_context,
                   ch_prompt, ch_raised, ch_branch, ch_reply, ch_result>>
    /\ UNCHANGED <<orch_vars, fx_vars, nm_vars, js_vars, jc_vars, up_vars, pv_vars>>

\* the answer call of one branch and the return of chat
Answer(branch, g) ==
    /\ ch_branch' = branch
    /\ ch_reply' = g
    /\ ch_result' = [answer |-> AnswerOf(branch, g), mode |-> ch_mode]
    /\ ch_pc' = "done"
    /\ UNCHANGED <<ch_message, ch_portfolio, ch_resume, ch_history, ch_context,
                   ch_raised, ch_intent, ch_mode>>
    /\ UNCHANGED <<orch_vars, fx_vars, nm_vars, js_vars, jc_vars, up_vars, pv_vars>>

\* lines 228-230: if mode == "INTERVIEW"
AnswerInterview ==
    /\ ch_pc = "dispatch"
    /\ ch_mode = INTERVIEW
    /\ UNCHANGED ch_prompt
    /\ \E g \in AnswerResponses : Answer("interview", g)

\* lines 232-234: elif mode == "ATS"
AnswerATS ==
    /\ ch_pc = "dispatch"
    /\ ch_mode # INTERVIEW
    /\ ch_mode = ATS
    /\ UNCHANGED ch_prompt
    /\ \E g \in AnswerResponses : Answer("ats", g)

\* lines 236-267: default to RAG mode, the prompt is built and sent
AnswerRAG ==
    /\ ch_pc = "dispatch"
    /\ ch_mode # INTERVIEW
    /\ ch_mode # ATS
    /\ RagPrompt(ch_context, ch_history, ch_message).exc = "None"
    /\ ch_prompt' = RagPrompt(ch_context, ch_history, ch_message).text
    /\ \E g \in AnswerResponses : Answer("rag", g)

\* lines 249-254: a turn of the history makes the loop raise, outside any try
HistoryRaises ==
    /\ ch_pc = "dispatch"
    /\ ch_mode # INTERVIEW
    /\ ch_mode # ATS
    /\ RagPrompt(ch_context, ch_history, ch_message).exc # "None"
    /\ ch_raised' = RagPrompt(ch_context, ch_history, ch_message).exc
    /\ ch_pc' = "raised"
    /\ UNCHANGED <<ch_message, ch_portfolio, ch_resume, ch_history, ch_context,
                   ch_prompt, ch_intent, ch_mode, ch_branch, ch_reply, ch_result>>
    /\ UNCHANGED <<orch_vars, fx_vars, nm_vars, js_vars, jc_vars, up_vars, pv_vars>>

ChatNext ==
    \/ ChatContext
    \/ DetectIntent
    \/ AnswerInterview
    \/ AnswerATS
    \/ AnswerRAG
    \/ HistoryRaises

\* ------------------------------------------------------------------------
\* jobs_engine._score_and_filter_jobs
\* ------------------------------------------------------------------------

K_index == <<"i", "n", "d", "e", "x">>

K_score == <<"s", "c", "o", "r", "e">>

K_reason == <<"r", "e", "a", "s", "o", "n">>

\* a fetched listing; its title, company, location, salaries and url are carried
\* along untouched and are left out
Listing(i, d) == [id |-> i, description |-> d]

\* job.copy() with the two keys the function adds
Scored(job, score, reason) ==
    [id |-> job.id, description |-> job.description, match_score |-> score,
     match_reason |-> reason]

DefaultReason == JStr(<<"G", "o", "o", "d", " ", "m", "a", "t", "c", "h", " ", "f", "o", "r", " ", "y",
      "o", "u", "r", " ", "p", "r", "o", "f", "i", "l", "e", ".">>)

FallbackReason == JStr(<<"B", "a", "s", "e", "d", " ", "o", "n", " ", "k", "e", "y", "w", "o", "r", "d",
      " ", "m", "a", "t", "c", "h", "i", "n", "g", " ", "w", "i", "t", "h", " ", "y",
      "o", "u", "r", " ", "r", "e", "s", "u", "m", "e", " ", "s", "k", "i", "l", "l",
      "s", ".">>)

\* the description of a listing is a str, or None when the API sent null
Described == "str"

NoDescription == "None"

\* line 97: ', '.join(portfolio.skills or []) needs an iterable of str
SummaryRaises(skills) ==
    /\ Truthy(skills)
    /\ \/ skills.t \in {"num", "bool"}
       \/ skills.t = "list" /\ ~AllStr(skills.items)

ScoreBatch == 15

\* line 103: jobs[:15]
JobsToScore(jobs) == SubSeq(jobs, 1, Min(Len(jobs), ScoreBatch))

\* line 110: j["description"][:200] raises TypeError on None
DescriptionRaises(to_score) ==
    \E i \in 1..Len(to_score) : to_score[i].description = NoDescription

\* lines 94-112 are outside the try of line 142
PrepareRaises(jobs, skills) ==
    SummaryRaises(skills) \/ DescriptionRaises(JobsToScore(jobs))

\* where w occurs in t, from i on
Occurrences(t, w, i) == {k \in i..Len(t) : HasAt(t, k, w)}

First(ks) == CHOOSE k \in ks : \A j \in ks : k <= j

RECURSIVE Remove(_, _, _)

RemoveAt(t, w, i, k) == SubSeq(t, i, k - 1) \o Remove(t, w, k + Len(w))

RemoveFrom(t, w, i, ks) ==
    IF ks = {} THEN SubSeq(t, i, Len(t)) ELSE RemoveAt(t, w, i, First(ks))

\* t[i:].replace(w, ""): the occurrences are taken from left to right
Remove(t, w, i) == RemoveFrom(t, w, i, Occurrences(t, w, i))

JsonFence == Fence \o <<"j", "s", "o", "n">>

\* line 154
Cleaned(content) == Strip(Remove(Remove(content, JsonFence, 1), Fence, 1))

\* an int or a bool: what compares with an int
IsNumber(v) == v.t \in {"num", "bool"}

\* "for s in scores" raises TypeError on these
NotIterable(v) == v.t \in {"null", "num", "bool"}

\* what "for s in scores" walks through: the items of a list, the keys of a dict,
\* the characters of a str
Iterated(v) ==
    IF v.t = "list" THEN v.items
    ELSE IF v.t = "dict" THEN [i \in 1..Len(v.keys) |-> JStr(v.keys[i])]
    ELSE [i \in 1..Len(v.s) |-> JStr(<<v.s[i]>>)]

EntryIndex(s) == DictGet(s, K_index, JNull)

EntryScore(s) == DictGet(s, K_score, JNum(0))

EntryReason(s) == DictGet(s, K_reason, DefaultReason)

\* line 161: idx is not None and 0 <= idx < len(jobs_to_score)
InRange(idx, n) == IsNumber(idx) /\ 0 <= idx.n /\ idx.n < n

\* s.get on a non-dict (160), an index that does not compare with 0 (161),
\* a score that does not compare with 40 (167)
EntryRaises(s, n) ==
    \/ s.t # "dict"
    \/ EntryIndex(s).t # "null" /\ ~IsNumber(EntryIndex(s))
    \/ InRange(EntryIndex(s), n) /\ ~IsNumber(EntryScore(s))

Threshold == 40

\* line 167
EntryKept(s, n) == InRange(EntryIndex(s), n) /\ EntryScore(s).n >= Threshold

\* lines 162-164
EntryJob(s, to_score) ==
    Scored(to_score[EntryIndex(s).n + 1], EntryScore(s).n, EntryReason(s))

MergeFail == [ok |-> FALSE, jobs |-> <<>>]

\* lines 158-168: the loop over the score entries, acc is scored_jobs
RECURSIVE MergeFrom(_, _, _, _)
MergeFrom(scores, i, to_score, acc) ==
    IF i > Len(scores) THEN [ok |-> TRUE, jobs |-> acc]
    ELSE IF EntryRaises(scores[i], Len(to_score)) THEN MergeFail
    ELSE IF EntryKept(scores[i], Len(to_score))
    THEN MergeFrom(scores, i + 1, to_score, Append(acc, EntryJob(scores[i], to_score)))
    ELSE MergeFrom(scores, i + 1, to_score, acc)

InsertAt(xs, x, i) == SubSeq(xs, 1, i - 1) \o <<x>> \o SubSeq(xs, i, Len(xs))

\* where a stable descending sort puts x: after every record scoring at least as much
RECURSIVE InsertPos(_, _, _)
InsertPos(xs, x, i) ==
    IF i > Len(xs) \/ xs[i].match_score < x.match_score THEN i
    ELSE InsertPos(xs, x, i + 1)

RECURSIVE SortByScore(_, _, _)
SortByScore(jobs, i, acc) ==
    IF i > Len(jobs) THEN acc
    ELSE SortByScore(jobs, i + 1, InsertAt(acc, jobs[i], InsertPos(acc, jobs[i], 1)))

Sorted_in_reply_order(jobs) == jobs

\* line 171: scored_jobs.sort(key=match_score, reverse=True)
Sorted(jobs) == SortByScore(jobs, 1, <<>>)

AfterMerge(m) == IF m.ok THEN [ok |-> TRUE, jobs |-> Sorted(m.jobs)] ELSE MergeFail

\* lines 155-172 on the result of json.loads
AfterLoads(r, to_score) ==
    IF ~r.ok \/ NotIterable(r.val) THEN MergeFail
    ELSE AfterMerge(MergeFrom(Iterated(r.val), 1, to_score, <<>>))

\* what the scoring endpoint did: the post raised (kind is the exception), it
\* answered another status than 200, it answered 200 with a body that is not the
\* expected completion, or it answered 200 with the text of the completion
ScoreResponse(kind, text) == [kind |-> kind, text |-> text]

NoScoreResponse == ScoreResponse("none", <<>>)

\* the scores local of line 155, None when the line is not reached or raises
Parsed(r) ==
    IF r.kind = "content" /\ Loads(Cleaned(r.text)).ok
    THEN Loads(Cleaned(r.text)).val
    ELSE JNull

\* lines 142-177: the try block; ok is FALSE when control reaches line 179
ScoreTry(r, to_score) ==
    IF r.kind # "content" THEN MergeFail
    ELSE AfterLoads(Loads(Cleaned(r.text)), to_score)

FallbackCount == 10

FallbackTop == 80

FallbackStep == 2

Fallback_of_every_listing(jobs) ==
    [i \in 1..Len(jobs) |->
        Scored(jobs[i], FallbackTop - (i - 1) * FallbackStep, FallbackReason)]

\* lines 180-185
Fallback(jobs) ==
    [i \in 1..Min(Len(jobs), FallbackCount) |->
        Scored(jobs[i], FallbackTop - (i - 1) * FallbackStep, FallbackReason)]

\* ------------------------------------------------------------------------
\* The calls of _score_and_filter_jobs that are explored
\* ------------------------------------------------------------------------

MaxJobs == 20

MaxEntries == 2

JobCounts == {0, 1, 11, 16, MaxJobs}

\* n listings, the one at position bad (if any) with a null description
Listings(n, bad) ==
    [i \in 1..n |-> Listing(i, IF i = bad THEN NoDescription ELSE Described)]

SkillsMixed == JList(<<Python, JNum(3)>>)

\* the "index" and "score" members of an entry of the reply, <<>> for a missing one
IndexTexts == {<<>>, <<"n", "u", "l", "l">>, <<"-", "1">>, <<"0">>, <<"1">>, <<"1", "4">>, <<"1", "5">>, <<"\"", "x", "\"">>}

ScoreTexts == {<<>>, <<"n", "u", "l", "l">>, <<"3", "9">>, <<"4", "0">>, <<"4", "1">>, <<"\"", "h", "i", "g", "h", "\"">>}

Member(key, text) ==
    IF text = <<>> THEN <<>> ELSE << <<"\"">> \o key \o <<"\"", ":", " ">> \o text >>

EntryText(ix, sc) ==
    <<"{">> \o Join(Member(K_index, ix) \o Member(K_score, sc), CommaSpace, 1)
        \o <<"}">>

\* entries with any index and a passing score, with the index 1 and any score,
\* and an entry that is not an object
EntryTexts ==
    {EntryText(ix, <<"4", "1">>) : ix \in IndexTexts}
        \cup {EntryText(<<"1">>, sc) : sc \in ScoreTexts}
        \cup {<<"7">>}

EntrySeqs == UNION {[1..k -> EntryTexts] : k \in 0..MaxEntries}

ArrayText(es) == <<"[">> \o Join(es, CommaSpace, 1) \o <<"]">>

Fenced(t) == JsonFence \o Newline \o t \o Newline \o Fence

T_scores_prose == <<"H", "e", "r", "e", " ", "a", "r", "e", " ", "t", "h", "e", " ", "s", "c", "o",
      "r", "e", "s">>

T_scores_object == EntryText(<<"0">>, <<"9", "0">>)

T_scores_number == <<"5">>

T_scores_empty_string == <<"\"", "\"">>

\* the completion texts: arrays of entries, two of them fenced, and replies that
\* are not an array
ScoreContents ==
    {ArrayText(es) : es \in EntrySeqs}
        \cup {Fenced(ArrayText(<<EntryText(<<"1">>, <<"4", "0">>)>>)),
              Fenced(T_scores_prose)}
        \cup {T_scores_prose, T_scores_object, T_scores_number,
              T_scores_empty_string}

ScoreFailures == {"ConnectError", "TimeoutException", "status", "body"}

ScoreResponses ==
    {ScoreResponse(k, <<>>) : k \in ScoreFailures}
        \cup {ScoreResponse("content", t) : t \in ScoreContents}

ScoreIdle ==
    /\ js_pc = "idle"
    /\ js_jobs = <<>>
    /\ js_skills = JNull
    /\ js_response = NoScoreResponse
    /\ js_scores = JNull
    /\ js_path = "none"
    /\ js_out = <<>>
    /\ js_raised = "None"

\* well-formed arguments for every listing count, and arguments the preparation
\* of the prompt cannot take
ScoreArguments ==
    {<<Listings(n, 0), SkillsPythonGo>> : n \in JobCounts}
        \cup {<<Listings(2, 0), JNull>>, <<Listings(2, 0), SkillsMixed>>,
              <<Listings(16, 2), SkillsPythonGo>>, <<Listings(16, 16), SkillsPythonGo>>}

ScoreCalled ==
    /\ js_pc = "start"
    /\ \E a \in ScoreArguments : js_jobs = a[1] /\ js_skills = a[2]
    /\ js_response = NoScoreResponse
    /\ js_scores = JNull
    /\ js_path = "none"
    /\ js_out = <<>>
    /\ js_raised = "None"

\* lines 90-140: up to the post
ScorePrepare ==
    /\ js_pc = "start"
    /\ IF js_jobs = <<>>
       THEN js_pc' = "done" /\ js_path' = "empty" /\ UNCHANGED js_raised
       ELSE IF PrepareRaises(js_jobs, js_skills)
       THEN js_pc' = "raised" /\ js_raised' = "TypeError" /\ UNCHANGED js_path
       ELSE js_pc' = "posted" /\ UNCHANGED <<js_path, js_raised>>
    /\ UNCHANGED <<js_jobs, js_skills, js_response, js_scores, js_out>>
    /\ UNCHANGED <<orch_vars, fx_vars, nm_vars, ch_vars, jc_vars, up_vars, pv_vars>>

Returned(try, jobs) ==
    IF try.ok THEN [path |-> "scored", jobs |-> try.jobs]
    ELSE [path |-> "fallback", jobs |-> Fallback(jobs)]

\* lines 142-185: the post is answered and the function returns
ScoreReply ==
    /\ js_pc = "posted"
    /\ \E r \in ScoreResponses :
        /\ js_response' = r
        /\ js_scores' = Parsed(r)
        /\ js_path' = Returned(ScoreTry(r, JobsToScore(js_jobs)), js_jobs).path
        /\ js_out' = Returned(ScoreTry(r, JobsToScore(js_jobs)), js_jobs).jobs
    /\ js_pc' = "done"
    /\ UNCHANGED <<js_jobs, js_skills, js_raised>>
    /\ UNCHANGED <<orch_vars, fx_vars, nm_vars, ch_vars, jc_vars, up_vars, pv_vars>>

ScoreNext ==
    \/ ScorePrepare
    \/ ScoreReply

\* ------------------------------------------------------------------------
\* jobs_engine.get_recommended_jobs and its cache
\* ------------------------------------------------------------------------

CacheMaxSize == 100

CacheTtl == 600

\* an item of the TTLCache; the sequence jc_cache holds the items from the least
\* to the most recently used. sid numbers the store that made the item (history)
Entry(key, value, expires, sid) ==
    [key |-> key, value |-> value, expires |-> expires, sid |-> sid]

Holds(cache, key) == \E i \in 1..Len(cache) : cache[i].key = key

EntryOf(cache, key) == cache[CHOOSE i \in 1..Len(cache) : cache[i].key = key]

InCache_never_found(cache, key, now) == FALSE

\* TTLCache.__contains__: the key is there and timer() < link.expires
InCache(cache, key, now) == Holds(cache, key) /\ now < EntryOf(cache, key).expires

Without(cache, key) == SelectSeq(cache, LAMBDA e : e.key # key)

Touched_again_fresh(cache, key, now) ==
    Without(cache, key)
        \o <<Entry(key, EntryOf(cache, key).value, now + CacheTtl,
                   EntryOf(cache, key).sid)>>

\* TTLCache.__getitem__: the item becomes the most recently used one and keeps
\* its expiry time
Touched(cache, key, now) == Without(cache, key) \o <<EntryOf(cache, key)>>

\* TTLCache.expire(time): the items with time >= expires are removed
Expire(cache, now) == SelectSeq(cache, LAMBDA e : now < e.expires)

Room_for_all(cache, key) == cache

\* Cache.__setitem__: popitem() while a new key does not fit; the least recently
\* used item goes first
Room(cache, key) ==
    IF Holds(cache, key) \/ Len(cache) < CacheMaxSize
    THEN cache
    ELSE SubSeq(cache, Len(cache) - CacheMaxSize + 2, Len(cache))

SetItem_keeps_first(cache, key, value, now, sid) ==
    IF Holds(Expire(cache, now), key)
    THEN Expire(cache, now)
    ELSE Room(Expire(cache, now), key) \o <<Entry(key, value, now + CacheTtl, sid)>>

\* TTLCache.__setitem__ at time now
SetItem(cache, key, value, now, sid) ==
    Without(Room(Expire(cache, now), key), key)
        \o <<Entry(key, value, now + CacheTtl, sid)>>

\* the stores whose items __setitem__ dropped to make room, with the store sid
\* that dropped them
Dropped(cache, key, now, sid) ==
    {<<Expire(cache, now)[i].sid, sid>> :
        i \in 1..(Len(Expire(cache, now)) - Len(Room(Expire(cache, now), key)))}

JobFilter(location, level, remote, salary_min, what) ==
    [location |-> location, level |-> level, remote |-> remote,
     salary_min |-> salary_min, what |-> what]

\* lines 191-192
CacheKey(slug, f) ==
    slug \o <<"_">> \o Str(f.location) \o <<"-">> \o Str(f.level) \o <<"-">>
        \o Str(f.remote) \o <<"-">> \o Str(f.salary_min) \o <<"-">> \o Str(f.what)

K_phone == <<"p", "h", "o", "n", "e">>

\* lines 200-204: phone.startswith raises AttributeError when the phone of a
\* contact mapping is no string
CountryRaises(contact) ==
    /\ Truthy(contact) /\ contact.t = "dict"
    /\ DictGet(contact, K_phone, JStr(<<>>)).t # "str"

\* lines 200-204: the country of the listings URL
Country(contact) ==
    IF ~(Truthy(contact) /\ contact.t = "dict") THEN "us"
    ELSE IF HasAt(DictGet(contact, K_phone, JStr(<<>>)).s, 1, <<"+", "4", "4">>) THEN "gb"
    ELSE IF HasAt(DictGet(contact, K_phone, JStr(<<>>)).s, 1, <<"+", "9", "1">>) THEN "in"
    ELSE "us"

\* lines 40-43: " ".join(skills[:3]) raises TypeError when no search text is
\* given and one of the first three skills is no string
QueryRaises(skills, f) ==
    /\ ~Truthy(f.what)
    /\ skills.t = "list"
    /\ \E i \in 1..Min(3, Len(skills.items)) : skills.items[i].t # "str"

\* the list a search computed: for which request, and on which path
\* ("empty": no listing to score, "scored", "fallback")
JobsResult(slug, f, path) == [slug |-> slug, filters |-> f, path |-> path]

NoJobs == JobsResult(<<>>, JobFilter(JNull, JNull, JNull, JNull, JNull), "none")

\* one request: where it stands, what it did and what it got
\* (no: its rank among the searches; ended: the searches started when it ended;
\* seen: the stores made when it arrived; sid: the store its result comes from)
Request(where, slug, f, arrived, no, seen) ==
    [pc |-> where, slug |-> slug, filters |-> f, arrived |-> arrived, no |-> no,
     seen |-> seen, finished |-> 0, ended |-> 0, hit |-> FALSE, api |-> 0,
     posts |-> 0, result |-> NoJobs, sid |-> 0, raised |-> "None"]

NoRequest == Request("idle", <<>>, NoJobs.filters, 0, 0, 0)

\* ------------------------------------------------------------------------
\* The searches that are explored
\* ------------------------------------------------------------------------

MaxOverlap == 2

MaxSearches == 3

ClockStep == 200

MaxClock == 600

Slots == 1..MaxOverlap

S_ann == <<"a", "n", "n">>

NoFilters == JobFilter(JNull, JNull, JNull, JNull, JNull)

RemoteOnly == JobFilter(JNull, JNull, JBool(TRUE), JNull, JNull)

SearchInputs == {<<S_ann, NoFilters>>, <<S_ann, RemoteOnly>>}

\* the contact and skills columns of the portfolio when the request reads them
Profile(contact, skills) == [contact |-> contact, skills |-> skills]

P_british == Profile(JDict(<<K_phone>>, <<JStr(<<"+", "4", "4", "7">>)>>), SkillsPythonGo)

P_phone_null == Profile(JDict(<<K_phone>>, <<JNull>>), SkillsPythonGo)

P_skill_number == Profile(JNull, SkillsMixed)

Profiles == {P_british, P_phone_null, P_skill_number}

\* the searches of other portfolios that filled the cache before
OtherKey(i) == CacheKey(<<"u">> \o IntText(i), NoFilters)

OtherJobs(i) == JobsResult(<<"u">> \o IntText(i), NoFilters, "scored")

Others(n) == [i \in 1..n |-> Entry(OtherKey(i), OtherJobs(i), CacheTtl, 0)]

FirstJobs == JobsResult(S_ann, NoFilters, "scored")

FirstEntry == Entry(CacheKey(S_ann, NoFilters), FirstJobs, CacheTtl, 1)

FirstRequest ==
    [Request("returned", S_ann, NoFilters, 0, 1, 0) EXCEPT
        !.ended = 1, !.api = 1, !.posts = 1, !.result = FirstJobs, !.sid = 1]

\* the caches after a search of ann and n searches of others, all at time 0,
\* ann's item being the least or the most recently used
WarmCounts == {CacheMaxSize - 2, CacheMaxSize - 1}

WarmCaches ==
    {<<FirstEntry>> \o Others(n) : n \in WarmCounts}
        \cup {Others(n) \o <<FirstEntry>> : n \in WarmCounts}

SearchIdle ==
    /\ jc_now = 0
    /\ jc_configured = TRUE
    /\ jc_cache = <<>>
    /\ jc_req = [s \in Slots |-> NoRequest]
    /\ jc_started = 0
    /\ jc_stores = <<>>
    /\ jc_evicted = {}

\* a process that starts, with or without the credentials of the listings API
SearchCold ==
    /\ jc_now = 0
    /\ jc_configured \in BOOLEAN
    /\ jc_cache = <<>>
    /\ jc_req = [s \in Slots |-> NoRequest]
    /\ jc_started = 0
    /\ jc_stores = <<>>
    /\ jc_evicted = {}

\* a process whose cache is almost full
SearchWarm ==
    /\ jc_now = 0
    /\ jc_configured = TRUE
    /\ jc_cache \in WarmCaches
    /\ jc_req = [s \in Slots |-> IF s = 1 THEN FirstRequest ELSE NoRequest]
    /\ jc_started = 1
    /\ jc_stores = <<[key |-> FirstEntry.key, value |-> FirstJobs, at |-> 0]>>
    /\ jc_evicted = {}

SearchCalled == SearchCold \/ SearchWarm

InFlight(r) == r.pc \in {"fetching", "scoring"}

\* the record of a new request is kept in the first slot that was never used,
\* or in place of the record of any request that has ended
Starts(s) ==
    /\ ~InFlight(jc_req[s])
    /\ jc_started < MaxSearches
    /\ \A t \in 1..(s - 1) : jc_req[t] # NoRequest

\* lines 194-196: the key is in the cache
SearchHit(s, slug, f) ==
    /\ Starts(s)
    /\ InCache(jc_cache, CacheKey(slug, f), jc_now)
    /\ jc_req' = [jc_req EXCEPT ![s] =
            [Request("returned", slug, f, jc_now, jc_started + 1, Len(jc_stores))
                EXCEPT
                !.finished = jc_now, !.ended = jc_started + 1, !.hit = TRUE,
                !.result = EntryOf(jc_cache, CacheKey(slug, f)).value,
                !.sid = EntryOf(jc_cache, CacheKey(slug, f)).sid]]
    /\ jc_cache' = Touched(jc_cache, CacheKey(slug, f), jc_now)
    /\ jc_started' = jc_started + 1
    /\ UNCHANGED <<jc_now, jc_configured, jc_stores, jc_evicted>>
    /\ UNCHANGED <<orch_vars, fx_vars, nm_vars, ch_vars, js_vars, up_vars, pv_vars>>

\* lines 194-204: the key is not in the cache and the phone is no string
SearchCountryRaises(s, slug, f, p) ==
    /\ Starts(s)
    /\ ~InCache(jc_cache, CacheKey(slug, f), jc_now)
    /\ CountryRaises(p.contact)
    /\ jc_req' = [jc_req EXCEPT ![s] =
            [Request("raised", slug, f, jc_now, jc_started + 1, Len(jc_stores))
                EXCEPT
                !.finished = jc_now, !.ended = jc_started + 1,
                !.raised = "AttributeError"]]
    /\ jc_started' = jc_started + 1
    /\ UNCHANGED <<jc_now, jc_configured, jc_cache, jc_stores, jc_evicted>>
    /\ UNCHANGED <<orch_vars, fx_vars, nm_vars, ch_vars, js_vars, up_vars, pv_vars>>

\* lines 194-207 and 34-43: the key is not in the cache and the skills cannot
\* be joined into the search text
SearchQueryRaises(s, slug, f, p) ==
    /\ Starts(s)
    /\ ~InCache(jc_cache, CacheKey(slug, f), jc_now)
    /\ ~CountryRaises(p.contact)
    /\ jc_configured
    /\ QueryRaises(p.skills, f)
    /\ jc_req' = [jc_req EXCEPT ![s] =
            [Request("raised", slug, f, jc_now, jc_started + 1, Len(jc_stores))
                EXCEPT
                !.finished = jc_now, !.ended = jc_started + 1,
                !.raised = "TypeError"]]
    /\ jc_started' = jc_started + 1
    /\ UNCHANGED <<jc_now, jc_configured, jc_cache, jc_stores, jc_evicted>>
    /\ UNCHANGED <<orch_vars, fx_vars, nm_vars, ch_vars, js_vars, up_vars, pv_vars>>

\* lines 194-207 and 34-58: the key is not in the cache, the listings are asked for
SearchMiss(s, slug, f, p) ==
    /\ Starts(s)
    /\ ~InCache(jc_cache, CacheKey(slug, f), jc_now)
    /\ ~CountryRaises(p.contact)
    /\ jc_configured
    /\ ~QueryRaises(p.skills, f)
    /\ jc_req' = [jc_req EXCEPT ![s] =
            [Request("fetching", slug, f, jc_now, jc_started + 1, Len(jc_stores))
                EXCEPT !.api = 1]]
    /\ jc_started' = jc_started + 1
    /\ UNCHANGED <<jc_now, jc_configured, jc_cache, jc_stores, jc_evicted>>
    /\ UNCHANGED <<orch_vars, fx_vars, nm_vars, ch_vars, js_vars, up_vars, pv_vars>>

\* lines 34-36: the key is not in the cache and the credentials are missing
SearchUnconfigured(s, slug, f, p) ==
    /\ Starts(s)
    /\ ~InCache(jc_cache, CacheKey(slug, f), jc_now)
    /\ ~CountryRaises(p.contact)
    /\ ~jc_configured
    /\ jc_req' = [jc_req EXCEPT ![s] =
            [Request("raised", slug, f, jc_now, jc_started + 1, Len(jc_stores))
                EXCEPT
                !.finished = jc_now, !.ended = jc_started + 1,
                !.raised = "ValueError"]]
    /\ jc_started' = jc_started + 1
    /\ UNCHANGED <<jc_now, jc_configured, jc_cache, jc_stores, jc_evicted>>
    /\ UNCHANGED <<orch_vars, fx_vars, nm_vars, ch_vars, js_vars, up_vars, pv_vars>>

\* line 58 raises: nothing catches it
FetchRaises(s) ==
    /\ jc_req[s].pc = "fetching"
    /\ jc_req' = [jc_req EXCEPT ![s].pc = "raised", ![s].finished = jc_now,
                                ![s].ended = jc_started, ![s].raised = "HTTPError"]
    /\ UNCHANGED <<jc_now, jc_configured, jc_cache, jc_started, jc_stores, jc_evicted>>
    /\ UNCHANGED <<orch_vars, fx_vars, nm_vars, ch_vars, js_vars, up_vars, pv_vars>>

\* lines 213-214 for the request of slot s
Stored(s, path) ==
    /\ jc_req' = [jc_req EXCEPT ![s].pc = "returned", ![s].finished = jc_now,
            ![s].ended = jc_started,
            ![s].result = JobsResult(jc_req[s].slug, jc_req[s].filters, path),
            ![s].sid = Len(jc_stores) + 1]
    /\ jc_cache' = SetItem(jc_cache, CacheKey(jc_req[s].slug, jc_req[s].filters),
                           JobsResult(jc_req[s].slug, jc_req[s].filters, path),
                           jc_now, Len(jc_stores) + 1)
    /\ jc_stores' = Append(jc_stores,
            [key |-> CacheKey(jc_req[s].slug, jc_req[s].filters),
             value |-> JobsResult(jc_req[s].slug, jc_req[s].filters, path),
             at |-> jc_now])
    /\ jc_evicted' = jc_evicted
            \cup Dropped(jc_cache, CacheKey(jc_req[s].slug, jc_req[s].filters), jc_now,
                         Len(jc_stores) + 1)

FetchEmpty_not_stored(s) ==
    /\ jc_req[s].pc = "fetching"
    /\ jc_req' = [jc_req EXCEPT ![s].pc = "returned", ![s].finished = jc_now,
            ![s].ended = jc_started,
            ![s].result = JobsResult(jc_req[s].slug, jc_req[s].filters, "empty")]
    /\ UNCHANGED <<jc_now, jc_configured, jc_cache, jc_started, jc_stores, jc_evicted>>
    /\ UNCHANGED <<orch_vars, fx_vars, nm_vars, ch_vars, js_vars, up_vars, pv_vars>>

\* lines 60-62 or an empty result list, then lines 90-91 and 213-214
FetchEmpty(s) ==
    /\ jc_req[s].pc = "fetching"
    /\ Stored(s, "empty")
    /\ UNCHANGED <<jc_now, jc_configured, jc_started>>
    /\ UNCHANGED <<orch_vars, fx_vars, nm_vars, ch_vars, js_vars, up_vars, pv_vars>>

\* the listings arrive and the scoring request is posted (line 144)
FetchListings(s) ==
    /\ jc_req[s].pc = "fetching"
    /\ jc_req' = [jc_req EXCEPT ![s].pc = "scoring", ![s].posts = 1]
    /\ UNCHANGED <<jc_now, jc_configured, jc_cache, jc_started, jc_stores, jc_evicted>>
    /\ UNCHANGED <<orch_vars, fx_vars, nm_vars, ch_vars, js_vars, up_vars, pv_vars>>

\* the listings arrive and lines 94-112 raise
FetchUnscorable(s) ==
    /\ jc_req[s].pc = "fetching"
    /\ jc_req' = [jc_req EXCEPT ![s].pc = "raised", ![s].finished = jc_now,
                                ![s].ended = jc_started, ![s].raised = "TypeError"]
    /\ UNCHANGED <<jc_now, jc_configured, jc_cache, jc_started, jc_stores, jc_evicted>>
    /\ UNCHANGED <<orch_vars, fx_vars, nm_vars, ch_vars, js_vars, up_vars, pv_vars>>

\* lines 150-185 and 213-214: the scored list or the fallback list is stored
ScoreReturns(s, path) ==
    /\ jc_req[s].pc = "scoring"
    /\ Stored(s, path)
    /\ UNCHANGED <<jc_now, jc_configured, jc_started>>
    /\ UNCHANGED <<orch_vars, fx_vars, nm_vars, ch_vars, js_vars, up_vars, pv_vars>>

\* time passes
Tick ==
    /\ jc_now + ClockStep <= MaxClock
    /\ jc_now' = jc_now + ClockStep
    /\ UNCHANGED <<jc_configured, jc_cache, jc_req, jc_started, jc_stores, jc_evicted>>
    /\ UNCHANGED <<orch_vars, fx_vars, nm_vars, ch_vars, js_vars, up_vars, pv_vars>>

SearchNext ==
    \/ \E s \in Slots : \E i \in SearchInputs : SearchHit(s, i[1], i[2])
    \/ \E s \in Slots : \E i \in SearchInputs : \E p \in Profiles :
            SearchCountryRaises(s, i[1], i[2], p)
    \/ \E s \in Slots : \E i \in SearchInputs : \E p \in Profiles :
            SearchQueryRaises(s, i[1], i[2], p)
    \/ \E s \in Slots : \E i \in SearchInputs : \E p \in Profiles :
            SearchMiss(s, i[1], i[2], p)
    \/ \E s \in Slots : \E i \in SearchInputs : \E p \in Profiles :
            SearchUnconfigured(s, i[1], i[2], p)
    \/ \E s \in Slots : FetchRaises(s)
    \/ \E s \in Slots : FetchEmpty(s)
    \/ \E s \in Slots : FetchListings(s)
    \/ \E s \in Slots : FetchUnscorable(s)
    \/ \E s \in Slots : \E path \in {"scored", "fallback"} : ScoreReturns(s, path)
    \/ Tick

\* ------------------------------------------------------------------------
\* Searches whose slugs and filter values hold the separators of the key
\* ------------------------------------------------------------------------

S_ann_x == <<"a", "n", "n", "_", "x">>

\* location=None as a query string: the text "None"
LocationTextNone == JobFilter(JStr(<<"N", "o", "n", "e">>), JNull, JNull, JNull, JNull)

LocationWithSeparator == JobFilter(JStr(<<"x", "_", "N", "o", "n", "e">>), JNull, JNull, JNull, JNull)

KeyInputs ==
    {<<S_ann, NoFilters>>, <<S_ann, LocationTextNone>>,
     <<S_ann_x, NoFilters>>, <<S_ann, LocationWithSeparator>>}

\* a process that starts with the credentials of the listings API
KeysCalled == SearchCold /\ jc_configured

KeysNext ==
    \/ \E s \in Slots : \E i \in KeyInputs : SearchHit(s, i[1], i[2])
    \/ \E s \in Slots : \E i \in KeyInputs : SearchMiss(s, i[1], i[2], P_british)
    \/ \E s \in Slots : FetchRaises(s)
    \/ \E s \in Slots : FetchEmpty(s)
    \/ \E s \in Slots : FetchListings(s)
    \/ \E s \in Slots : FetchUnscorable(s)
    \/ \E s \in Slots : \E path \in {"scored", "fallback"} : ScoreReturns(s, path)

\* ------------------------------------------------------------------------
\* main.upload_resume
\* ------------------------------------------------------------------------

K_raw_text == <<"_", "r", "a", "w", "_", "t", "e", "x", "t">>

K_profile_image_url == <<"p", "r", "o", "f", "i", "l", "e", "_", "i", "m", "a", "g", "e", "_", "u",
          "r", "l">>

T_professional == <<"P", "r", "o", "f", "e", "s", "s", "i", "o", "n", "a", "l">>

T_default_tagline == <<"B", "u", "i", "l", "d", "i", "n", "g", " ", "t", "h", "e", " ", "f", "u",
          "t", "u", "r", "e", " ", "w", "i", "t", "h", " ", "A", "I">>

T_default_bio ==
    <<"T", "h", "i", "s", " ", "p", "o", "r", "t", "f", "o", "l", "i", "o", " ",
          "w", "a", "s", " ", "g", "e", "n", "e", "r", "a", "t", "e", "d", " ", "f",
          "r", "o", "m", " ", "y", "o", "u", "r", " ", "r", "e", "s", "u", "m", "e",
          ".", " ", "P", "l", "e", "a", "s", "e", " ", "u", "p", "d", "a", "t", "e",
          " ", "w", "i", "t", "h", " ", "y", "o", "u", "r", " ", "s", "p", "e", "c",
          "i", "f", "i", "c", " ", "d", "e", "t", "a", "i", "l", "s", ".">>

T_default_raw_text == <<"F", "a", "l", "l", "b", "a", "c", "k", " ", "p", "o", "r", "t", "f", "o",
          "l", "i", "o", " ", "c", "r", "e", "a", "t", "e", "d", " ", "d", "u", "e",
          " ", "t", "o", " ", "p", "r", "o", "c", "e", "s", "s", "i", "n", "g", " ",
          "e", "r", "r", "o", "r">>

DefaultSkills ==
    JList(<<Python, JStr(<<"J", "a", "v", "a", "S", "c", "r", "i", "p", "t">>), JStr(<<"A", "I">>), JStr(<<"W", "e", "b", " ", "D", "e", "v", "e", "l", "o", "p", "m", "e", "n", "t">>)>>)

EmptyList == JList(<<>>)

EmptyDict == JDict(<<>>, <<>>)

FallbackData_without_skills(user) ==
    JDict(<<K_name, K_role, K_tagline, K_bio, K_projects, K_experience,
            K_education, K_achievements, K_contact, K_raw_text>>,
          <<JStr(Title(user)), JStr(T_professional), JStr(T_default_tagline),
            JStr(T_default_bio), EmptyList, EmptyList, EmptyList,
            EmptyList, EmptyDict, JStr(T_default_raw_text)>>)

\* lines 288-300: the data of the except branch
FallbackData(user) ==
    JDict(<<K_name, K_role, K_tagline, K_bio, K_skills, K_projects, K_experience,
            K_education, K_achievements, K_contact, K_raw_text>>,
          <<JStr(Title(user)), JStr(T_professional), JStr(T_default_tagline),
            JStr(T_default_bio), DefaultSkills, EmptyList, EmptyList, EmptyList,
            EmptyList, EmptyDict, JStr(T_default_raw_text)>>)

\* process_resume, lines 433-438: the normalised data, the text and the image
WithImage(data, image) ==
    IF Truthy(image) THEN DictPut(data, K_profile_image_url, image) ELSE data

Processed(data, text, image) == WithImage(DictPut(data, K_raw_text, JStr(text)), image)

\* lines 306-340: the columns written from data, in a new row or in the user's row
Row(data, slug) ==
    [name |-> DictGet(data, K_name, JStr(<<>>)),
     role |-> DictGet(data, K_role, JStr(<<>>)),
     tagline |-> DictGet(data, K_tagline, JStr(<<>>)),
     bio |-> DictGet(data, K_bio, JStr(<<>>)),
     skills |-> DictGet(data, K_skills, EmptyList),
     projects |-> DictGet(data, K_projects, EmptyList),
     experience |-> DictGet(data, K_experience, EmptyList),
     education |-> DictGet(data, K_education, EmptyList),
     achievements |-> DictGet(data, K_achievements, EmptyList),
     contact |-> DictGet(data, K_contact, EmptyDict),
     slug |-> slug,
     resume_text |-> DictGet(data, K_raw_text, JStr(<<>>)),
     profile_image_url |-> DictGet(data, K_profile_image_url, JNull)]

\* ------------------------------------------------------------------------
\* The uploads that are explored
\* ------------------------------------------------------------------------

UploadUsers == {<<"a", "l", "i", "c", "e">>, <<"j", "o", "_", "d", "2">>}

\* the request: a PDF with an API key at hand, or what lines 256-268 refuse
UploadKinds == {"pdf", "not_pdf", "too_large", "no_api_key"}

\* what process_resume raises: no text (429), all models failed (362), others
ProcessFailures == {"ValueError", "RuntimeError", "AttributeError"}

ResumeTexts == {<<"A", "n", "n", ",", " ", "d", "e", "v", "e", "l", "o", "p", "e", "r">>}

ImageUrls == {JNull, JStr(<<"/", "u", "p", "l", "o", "a", "d", "s", "/", "a", ".", "p", "n", "g">>)}

NoRow == Row(EmptyDict, <<>>)

OldRow(user) == Row(Processed(Normalised(EmptyDict, defaults(user)), <<"o">>, JNull), user)

NoData == JNull

UploadIdle ==
    /\ up_pc = "idle"
    /\ up_user = <<>>
    /\ up_kind = "pdf"
    /\ up_file = FALSE
    /\ up_outcome = "none"
    /\ up_data = NoData
    /\ up_has_row = FALSE
    /\ up_row = NoRow
    /\ up_response = "none"

UploadCalled ==
    /\ up_pc = "start"
    /\ up_user \in UploadUsers
    /\ up_kind \in UploadKinds
    /\ up_file = FALSE
    /\ up_outcome = "none"
    /\ up_data = NoData
    /\ up_has_row \in BOOLEAN
    /\ up_row = (IF up_has_row THEN OldRow(up_user) ELSE NoRow)
    /\ up_response = "none"

\* lines 256-268: the request is refused before the file is written
UploadRefused ==
    /\ up_pc = "start"
    /\ up_kind # "pdf"
    /\ up_pc' = "done"
    /\ up_response' = "HTTP 400"
    /\ UNCHANGED <<up_user, up_kind, up_file, up_outcome, up_data, up_has_row, up_row>>
    /\ UNCHANGED <<orch_vars, fx_vars, nm_vars, ch_vars, js_vars, jc_vars, pv_vars>>

\* lines 270-279: the file is written and process_resume is awaited
UploadSaved ==
    /\ up_pc = "start"
    /\ up_kind = "pdf"
    /\ up_pc' = "processing"
    /\ up_file' = TRUE
    /\ UNCHANGED <<up_user, up_kind, up_outcome, up_data, up_has_row, up_row,
                   up_response>>
    /\ UNCHANGED <<orch_vars, fx_vars, nm_vars, ch_vars, js_vars, jc_vars, pv_vars>>

\* lines 301-350 once data is set: the file is removed, the row is written and
\* the success message is returned
Finished(data) ==
    /\ up_pc' = "done"
    /\ up_data' = data
    /\ up_file' = FALSE
    /\ up_has_row' = TRUE
    /\ up_row' = Row(data, IF up_has_row THEN up_row.slug ELSE up_user)
    /\ up_response' = "Portfolio generated"
    /\ UNCHANGED <<up_user, up_kind>>
    /\ UNCHANGED <<orch_vars, fx_vars, nm_vars, ch_vars, js_vars, jc_vars, pv_vars>>

\* lines 279-281: process_resume returns the normalised data
ProcessReturns ==
    /\ up_pc = "processing"
    /\ up_outcome' = "returned"
    /\ \E d \in DataInputs : \E t \in ResumeTexts : \E i \in ImageUrls :
        /\ d.t = "dict"
        /\ Finished(Processed(Normalised(d, defaults(up_user)), t, i))

\* lines 282-300: process_resume raises
ProcessRaises ==
    /\ up_pc = "processing"
    /\ up_outcome' \in ProcessFailures
    /\ Finished(FallbackData(up_user))

UploadNext ==
    \/ UploadRefused
    \/ UploadSaved
    \/ ProcessReturns
    \/ ProcessRaises

\* ------------------------------------------------------------------------
\* main.py: the endpoints addressed by the slug of a portfolio, and the
\* publish toggle
\* ------------------------------------------------------------------------

MaxRequests == 3

\* who sends a request: the user the portfolio belongs to, another user who is
\* logged in and has no portfolio, or somebody who is not logged in
Requesters == {"owner", "other", "anonymous"}

S_nobody == <<"n", "o", "b", "o", "d", "y">>

\* the slug of the one portfolio row, and a slug of no row
Slugs == {S_ann, S_nobody}

Handled(endpoint, who, slug, status) ==
    [endpoint |-> endpoint, who |-> who, slug |-> slug, published |-> pv_published,
     status |-> status]

NothingHandled == [endpoint |-> "none", who |-> "none", slug |-> <<>>, published |-> FALSE, status |-> 0]

VisibilityIdle ==
    /\ pv_published = FALSE
    /\ pv_api_key = TRUE
    /\ pv_resume_text = TRUE
    /\ pv_count = 0
    /\ pv_last = NothingHandled

\* models.py line 41: a new row is not published
VisibilityCalled ==
    /\ pv_published = FALSE
    /\ pv_api_key \in BOOLEAN
    /\ pv_resume_text \in BOOLEAN
    /\ pv_count = 0
    /\ pv_last = NothingHandled

Responds(endpoint, who, slug, status) ==
    /\ pv_count < MaxRequests
    /\ pv_count' = pv_count + 1
    /\ pv_last' = Handled(endpoint, who, slug, status)
    /\ UNCHANGED <<pv_api_key, pv_resume_text>>
    /\ UNCHANGED <<orch_vars, fx_vars, nm_vars, ch_vars, js_vars, jc_vars, up_vars>>

\* lines 173-188
PageStatus(who, slug) ==
    IF slug # S_ann THEN 404
    ELSE IF ~pv_published /\ who # "owner" THEN 403
    ELSE 200

\* lines 165-188
portfolio_page(who, slug) ==
    /\ Responds("page", who, slug, PageStatus(who, slug))
    /\ UNCHANGED pv_published

\* auth.py lines 92-104 and main.py lines 377-388
ToggleStatus(who) ==
    IF who = "anonymous" THEN 401
    ELSE IF who = "other" THEN 404
    ELSE 200

\* lines 371-388
toggle_portfolio_publish(who, is_published) ==
    /\ Responds("publish", who, S_ann, ToggleStatus(who))
    /\ pv_published' = IF who = "owner" THEN is_published ELSE pv_published

\* lines 430-462: served tells whether rag_chat returned
ChatStatus(slug, served) ==
    IF slug # S_ann THEN 404
    ELSE IF ~pv_api_key THEN 400
    ELSE IF ~served THEN 500
    ELSE 200

\* lines 422-462
chat_endpoint(who, slug, served) ==
    /\ Responds("chat", who, slug, ChatStatus(slug, served))
    /\ UNCHANGED pv_published

\* lines 470-488: served tells whether the file was made
PptStatus(slug, served) ==
    IF slug # S_ann THEN 404
    ELSE IF ~served THEN 500
    ELSE 200

\* lines 465-488
export_portfolio_ppt(who, slug, served) ==
    /\ Responds("ppt", who, slug, PptStatus(slug, served))
    /\ UNCHANGED pv_published

\* lines 495-524
DocxStatus(slug, served) ==
    IF slug # S_ann THEN 404
    ELSE IF ~pv_api_key \/ ~pv_resume_text THEN 400
    ELSE IF ~served THEN 500
    ELSE 200

\* lines 490-524
export_portfolio_docx(who, slug, served) ==
    /\ Responds("docx", who, slug, DocxStatus(slug, served))
    /\ UNCHANGED pv_published

\* lines 538-560: served tells whether get_recommended_jobs returned
JobsStatus(slug, served) ==
    IF slug # S_ann THEN 404
    ELSE IF ~pv_api_key THEN 400
    ELSE IF ~served THEN 500
    ELSE 200

\* lines 526-560
fetch_job_recommendations(who, slug, served) ==
    /\ Responds("jobs", who, slug, JobsStatus(slug, served))
    /\ UNCHANGED pv_published

VisibilityNext ==
    \/ \E who \in Requesters : \E slug \in Slugs : portfolio_page(who, slug)
    \/ \E who \in Requesters : \E v \in BOOLEAN : toggle_portfolio_publish(who, v)
    \/ \E who \in Requesters : \E slug \in Slugs : \E served \in BOOLEAN :
            chat_endpoint(who, slug, served)
    \/ \E who \in Requesters : \E slug \in Slugs : \E served \in BOOLEAN :
            export_portfolio_ppt(who, slug, served)
    \/ \E who \in Requesters : \E slug \in Slugs : \E served \in BOOLEAN :
            export_portfolio_docx(who, slug, served)
    \/ \E who \in Requesters : \E slug \in Slugs : \E served \in BOOLEAN :
            fetch_job_recommendations(who, slug, served)

\* ------------------------------------------------------------------------
\* Specifications: one per component, the other components stay idle
\* ------------------------------------------------------------------------

OrchInit == OrchIdle /\ FixIdle /\ NormIdle /\ ChatIdle /\ ScoreIdle /\ SearchIdle /\ UploadIdle /\ VisibilityIdle

SpecOrch == OrchInit /\ [][OrchNext]_vars

\* the lists of models the function can have called after its next step
NextCalled == IF InLoop THEN {called, Append(called, attempt_model)} ELSE {called}

\* the function goes on: it enters the loop, ends an attempt, or finishes
Advances ==
    /\ pc # "done"
    /\ pc' \in {"loop", "done"}
    /\ called' \in NextCalled
    /\ (pc' # pc \/ called' # called)

\* every model call returns or fails, and the function goes on after it:
\* each step of OrchNext is a step of Advances, and one is possible until
\* the function has ended
SpecOrchLive == OrchInit /\ [][OrchNext]_vars /\ WF_<<pc, called>>(Advances)

FixInit == OrchIdle /\ FixCalled /\ NormIdle /\ ChatIdle /\ ScoreIdle /\ SearchIdle /\ UploadIdle /\ VisibilityIdle

SpecFix == FixInit /\ [][FixJsonString]_vars

NormInit == OrchIdle /\ FixIdle /\ NormCalled /\ ChatIdle /\ ScoreIdle /\ SearchIdle /\ UploadIdle /\ VisibilityIdle

SpecNorm == NormInit /\ [][ValidateAndNormalise]_vars

ChatInit == OrchIdle /\ FixIdle /\ NormIdle /\ ChatCalled /\ ScoreIdle /\ SearchIdle /\ UploadIdle /\ VisibilityIdle

SpecChat == ChatInit /\ [][ChatNext]_vars

ContextInit == OrchIdle /\ FixIdle /\ NormIdle /\ ContextCalled /\ ScoreIdle /\ SearchIdle /\ UploadIdle /\ VisibilityIdle

SpecContext == ContextInit /\ [][ChatContext]_vars

HistoryInit == OrchIdle /\ FixIdle /\ NormIdle /\ HistoryCalled /\ ScoreIdle /\ SearchIdle /\ UploadIdle /\ VisibilityIdle

SpecHistory == HistoryInit /\ [][ChatNext]_vars

ScoreInit == OrchIdle /\ FixIdle /\ NormIdle /\ ChatIdle /\ ScoreCalled /\ SearchIdle /\ UploadIdle /\ VisibilityIdle

SpecScore == ScoreInit /\ [][ScoreNext]_vars

SearchInit == OrchIdle /\ FixIdle /\ NormIdle /\ ChatIdle /\ ScoreIdle /\ SearchCalled /\ UploadIdle /\ VisibilityIdle

SpecSearch == SearchInit /\ [][SearchNext]_vars

KeysInit ==
    OrchIdle /\ FixIdle /\ NormIdle /\ ChatIdle /\ ScoreIdle /\ KeysCalled /\ UploadIdle /\ VisibilityIdle

SpecKeys == KeysInit /\ [][KeysNext]_vars

UploadInit ==
    OrchIdle /\ FixIdle /\ NormIdle /\ ChatIdle /\ ScoreIdle /\ SearchIdle /\ UploadCalled /\ VisibilityIdle

SpecUpload == UploadInit /\ [][UploadNext]_vars

VisibilityInit == OrchIdle /\ FixIdle /\ NormIdle /\ ChatIdle /\ ScoreIdle /\ SearchIdle /\ UploadIdle /\ VisibilityCalled

SpecVisibility == VisibilityInit /\ [][VisibilityNext]_vars

\* ------------------------------------------------------------------------
\* Properties of the fallback loop
\* ------------------------------------------------------------------------

NoDuplicates(seq) == \A i, j \in 1..Len(seq) : i # j => seq[i] # seq[j]

FallbackIndex(m) == CHOOSE i \in 1..Len(FALLBACK_MODELS) : FALLBACK_MODELS[i] = m

IsFallback(m) == \E i \in 1..Len(FALLBACK_MODELS) : FALLBACK_MODELS[i] = m

\* the response is a 200 whose content is the text of a JSON object
IsJsonObjectText(r) ==
    /\ r.status = 200
    /\ r.envelope = "content"
    /\ Loads(r.content).ok
    /\ Loads(r.content).val.t = "dict"

\* C1: the models are called in list order, one after the other; a call that
\* returns a value returns the value parsed from the answer of the last model
\* called, every model before it failed, and the loop is left at once.  When
\* the first N-1 models answer 429 and the N-th answers with a JSON object,
\* the call returns that object's parsed value after exactly N calls.
C1_FirstSuccessWins ==
    /\ called = SubSeq(models_to_try, 1, Len(called))
    /\ outcome = "returned" =>
          /\ pc = "done"
          /\ _call_llm(last_response).exc = "None"
          /\ _fix_json_string(last_response.content).ok
          /\ task = "ats" => result = _fix_json_string(last_response.content).val
          /\ task = "portfolio" =>
                result = _validate_and_normalise(
                             _fix_json_string(last_response.content).val, username).val
          /\ net_failures + parse_failures = Len(called) - 1
    /\ ( /\ pc = "done"
         /\ Len(called) = Len(models_to_try)
         /\ rate_limited
         /\ net_failures = Len(models_to_try) - 1
         /\ IsJsonObjectText(last_response) )
       => /\ outcome = "returned"
          /\ Len(called) = Len(models_to_try)
          /\ task = "ats" => result = Loads(last_response.content).val

\* C1 witness: seven 429 answers, then the eighth model's JSON object is returned
C1_Witness ==
    /\ outcome = "returned"
    /\ Len(models_to_try) = 8
    /\ Len(called) = 8
    /\ rate_limited
    /\ net_failures = 7
    /\ IsJsonObjectText(last_response)

\* C2: a call that ends without returning a value ends with the
\* all-models-failed RuntimeError, after one call per candidate model, and the
\* error names the error of the last attempt.
C2_AllFailExhausted ==
    (pc = "done" /\ outcome # "returned") =>
        /\ raised.type = "RuntimeError"
        /\ Len(called) = Len(models_to_try)
        /\ raised.last = last_error
        /\ last_error.model = models_to_try[Len(models_to_try)]

\* C3: the candidate list is the preferred model followed by the fallback models
\* other than it, in their fixed order; no model occurs twice in the list, and
\* none is called twice.
C3_CandidateList ==
    pc # "idle" =>
        /\ models_to_try[1] = (IF model # "" THEN model ELSE DEFAULT_LLM_MODEL)
        /\ \A i \in 2..Len(models_to_try) :
              /\ IsFallback(models_to_try[i])
              /\ models_to_try[i] # models_to_try[1]
        /\ \A i \in 1..Len(FALLBACK_MODELS) :
              FALLBACK_MODELS[i] # models_to_try[1] =>
                  \E k \in 2..Len(models_to_try) : models_to_try[k] = FALLBACK_MODELS[i]
        /\ \A i, j \in 2..Len(models_to_try) :
              i < j => FallbackIndex(models_to_try[i]) < FallbackIndex(models_to_try[j])
        /\ NoDuplicates(models_to_try)
        /\ NoDuplicates(called)

\* C3 witness: the preferred model is a fallback model and every candidate was called
C3_Witness ==
    /\ pc = "done"
    /\ model = FALLBACK_MODELS[4]
    /\ Len(models_to_try) = 7
    /\ Len(called) = 7

\* C4: the only exception that leaves the call is the all-models-failed
\* RuntimeError; no failure of a single attempt is raised on its own.
C4_OnlyExhaustionPropagates ==
    outcome = "raised" => raised.type = "RuntimeError"

\* C8: every value returned to the caller is a mapping.
C8_ResultIsMapping ==
    outcome = "returned" => result.t = "dict"

\* ------------------------------------------------------------------------
\* Properties of _validate_and_normalise
\* ------------------------------------------------------------------------

StringKeys == {K_name, K_role, K_tagline, K_bio}

ListKeys == {K_skills, K_projects, K_experience, K_education, K_achievements}

\* the value the result must hold under a list key or under contact
Kept(data, k, type) ==
    IF HasKey(data, k) /\ DictGet(data, k, JNull).t = type
    THEN DictGet(data, k, JNull)
    ELSE IF type = "list" THEN JList(<<>>) ELSE JDict(<<>>, <<>>)

\* C5: for every mapping given to _validate_and_normalise the result is a
\* mapping holding every one of the ten keys with a non-null value: the four
\* text keys hold strings, the five list keys hold the list given or the empty
\* list when the key is missing or its value is no list, and contact holds the
\* mapping given or the empty mapping when it is missing or no mapping.
C5_EveryKeyTyped ==
    (nm_pc = "done" /\ nm_data.t = "dict") =>
        /\ nm_out.ok
        /\ nm_out.val.t = "dict"
        /\ \A i \in 1..Len(SchemaKeys) :
              /\ HasKey(nm_out.val, SchemaKeys[i])
              /\ DictGet(nm_out.val, SchemaKeys[i], JNull).t # "null"
        /\ \A k \in StringKeys : DictGet(nm_out.val, k, JNull).t = "str"
        /\ \A k \in ListKeys : DictGet(nm_out.val, k, JNull) = Kept(nm_data, k, "list")
        /\ DictGet(nm_out.val, K_contact, JNull) = Kept(nm_data, K_contact, "dict")

\* contact was supplied as a list, skills is missing
C5_Witness ==
    /\ nm_pc = "done"
    /\ nm_data.t = "dict"
    /\ DictGet(nm_data, K_contact, JNull).t = "list"
    /\ ~HasKey(nm_data, K_skills)
    /\ DictGet(nm_out.val, K_contact, JNull) = JDict(<<>>, <<>>)
    /\ DictGet(nm_out.val, K_skills, JNull) = JList(<<>>)

\* ------------------------------------------------------------------------
\* Properties of _fix_json_string
\* ------------------------------------------------------------------------

\* C6: for a JSON object text with one trailing comma before a closing brace
\* or bracket, _fix_json_string returns the object it returns for the text
\* without that comma, also when a string value contains a comma followed by
\* a closing brace or bracket.
C6_TrailingCommaSameObject ==
    (fx_pc = "done" /\ fx_kind = "comma") =>
        /\ fx_base_out.ok
        /\ fx_out.ok
        /\ fx_out.val = fx_base_out.val

\* C7: for a JSON object text wrapped in json-tagged or untagged code fences,
\* _fix_json_string returns the object it returns for the unwrapped text.
C7_FencedSameObject ==
    (fx_pc = "done" /\ fx_kind = "fence") =>
        /\ fx_base_out.ok
        /\ fx_base_out.val.t = "dict"
        /\ fx_base_out.val = Loads(fx_base).val
        /\ fx_out.ok
        /\ fx_out.val = fx_base_out.val

\* a fenced object of several lines whose members were all recovered
C7_Witness ==
    /\ fx_pc = "done"
    /\ fx_kind = "fence"
    /\ HasAt(fx_text, 1, FenceJson)
    /\ \E p \in 1..Len(fx_base) : fx_base[p] = "\n"
    /\ fx_out.ok
    /\ Len(fx_out.val.keys) >= 2

\* ------------------------------------------------------------------------
\* Properties of detect_intent and chat
\* ------------------------------------------------------------------------

\* C9 as stated: detect_intent returns one of the three labels; it returns
\* INTERVIEW or ATS only when the call succeeded and its reply is that label,
\* and it returns RAG for every call failure and every reply that is not one
\* of the three labels.
C9_LabelOnlyForThatReply ==
    ch_pc \in {"dispatch", "done"} =>
        /\ ch_mode \in IntentLabels
        /\ ch_mode \in {INTERVIEW, ATS} =>
              /\ _call_gemini(ch_intent).exc = "None"
              /\ ch_intent.text = ch_mode
        /\ ( _call_gemini(ch_intent).exc # "None" \/ ch_intent.text \notin IntentLabels )
              => ch_mode = RAG

\* C9 as amended: the reply counts with the white space around it removed and
\* its letters in upper case. detect_intent returns one of the three labels;
\* INTERVIEW or ATS only when the call succeeded and the reply so read is that
\* label; RAG for every call failure and every reply that, so read, is none
\* of the three labels.
C9_LabelOfNormalisedReply ==
    ch_pc \in {"dispatch", "done"} =>
        /\ ch_mode \in IntentLabels
        /\ ch_mode \in {INTERVIEW, ATS} =>
              /\ _call_gemini(ch_intent).exc = "None"
              /\ Upper(Strip(ch_intent.text)) = ch_mode
        /\ ( /\ _call_gemini(ch_intent).exc = "None"
             /\ Upper(Strip(ch_intent.text)) \in IntentLabels )
              => ch_mode = Upper(Strip(ch_intent.text))
        /\ ( \/ _call_gemini(ch_intent).exc # "None"
             \/ Upper(Strip(ch_intent.text)) \notin IntentLabels )
              => ch_mode = RAG

\* a reply in lower case with white space around it was read as ATS
C9_Witness ==
    /\ ch_pc = "dispatch"
    /\ _call_gemini(ch_intent).exc = "None"
    /\ ch_intent.text # ATS
    /\ ch_mode = ATS

\* the branch chat takes for a mode
BranchOf(mode) ==
    IF mode = INTERVIEW THEN "interview" ELSE IF mode = ATS THEN "ats" ELSE "rag"

\* C10: whatever the intent call and the answer call do, chat returns a dict
\* of exactly an answer string and a mode; the mode is the label detect_intent
\* returned, the answer was asked of the branch of that mode, it is the
\* model's reply when the answer call succeeded and the fixed apology of that
\* branch when it failed.
C10_AnswerAndMode ==
    ch_pc = "done" =>
        /\ DOMAIN ch_result = {"answer", "mode"}
        /\ ch_result.mode = ch_mode
        /\ ch_mode = detect_intent(ch_intent)
        /\ ch_mode \in IntentLabels
        /\ ch_branch = BranchOf(ch_mode)
        /\ ch_result.answer \in AnswerReplies \cup {A_interview, A_ats, A_rag}
        /\ _call_gemini(ch_reply).exc = "None" => ch_result.answer = ch_reply.text
        /\ _call_gemini(ch_reply).exc # "None" =>
              /\ ch_mode = INTERVIEW => ch_result.answer = A_interview
              /\ ch_mode = ATS => ch_result.answer = A_ats
              /\ ch_mode = RAG => ch_result.answer = A_rag

\* the intent call gave ATS and the answer call failed
C10_Witness ==
    /\ ch_pc = "done"
    /\ ch_mode = ATS
    /\ _call_gemini(ch_reply).exc # "None"
    /\ ch_result = [answer |-> A_ats, mode |-> ATS]

\* ------------------------------------------------------------------------
\* Properties of the chat context and of the RAG prompt
\* ------------------------------------------------------------------------

\* w occurs in t
Contains(t, w) == \E i \in 1..(Len(t) - Len(w) + 1) : HasAt(t, i, w)

SkillsLine ==
    <<"S", "k", "i", "l", "l", "s", ":", " ", "P", "y", "t", "h", "o", "n", ",", " ",
      "G", "o">>

\* chat has built its context: it is what every answer branch is given
ContextBuilt == ch_pc \in {"intent", "dispatch", "done"}

\* the sections of the portfolio whose value is not empty
NonEmptySections(p) ==
    Cardinality({i \in 1..Len(p.keys) : Truthy(p.items[i])})

\* v is a list with at least one mapping among its entries
HasEntry(v) == v.t = "list" /\ \E i \in 1..Len(v.items) : v.items[i].t = "dict"

\* the sections of the portfolio that give a block of the context
BlockSections(p) ==
    Cardinality(
        {k \in {K_name, K_role, K_bio} : Truthy(DictGet(p, k, JNull))}
        \cup {k \in {K_skills, K_achievements} :
                 DictGet(p, k, JNull).t = "list" /\ DictGet(p, k, JNull).items # <<>>}
        \cup {k \in {K_experience, K_projects, K_education} : HasEntry(DictGet(p, k, JNull))}
        \cup {k \in {K_contact} :
                 /\ DictGet(p, k, JNull).t = "dict"
                 /\ \E i \in 1..Len(DictGet(p, k, JNull).items) :
                       Truthy(DictGet(p, k, JNull).items[i])})

\* the first 4000 characters of the raw resume text, empty when there is none
RawPrefix(resume) ==
    IF resume.t # "str" THEN <<>>
    ELSE [i \in 1..(IF Len(resume.s) < 4000 THEN Len(resume.s) ELSE 4000) |-> resume.s[i]]

\* C11 as stated: for the message "What are my main skills?" and every
\* portfolio whose skills are ["Python", "Go"], whatever its other fields hold,
\* the context given to answer generation contains "Skills: Python, Go".
C11_SkillsInContext ==
    ( /\ ContextBuilt
      /\ ch_message = M_skills
      /\ DictGet(ch_portfolio, K_skills, JNull) = SkillsPythonGo )
        => Contains(ch_context, SkillsLine)

\* C11 as amended: the same for every such portfolio in which at least three
\* of the nine sections give a block; with fewer the context is the raw resume
\* text.
C11_SkillsInStructuredContext ==
    ( /\ ContextBuilt
      /\ ch_message = M_skills
      /\ DictGet(ch_portfolio, K_skills, JNull) = SkillsPythonGo )
        => /\ BlockSections(ch_portfolio) >= 3 => Contains(ch_context, SkillsLine)
           /\ BlockSections(ch_portfolio) < 3 => ch_context = RawPrefix(ch_resume)

\* the skills line stands in a context that has other sections around it
C11_Witness ==
    /\ ContextBuilt
    /\ ch_message = M_skills
    /\ DictGet(ch_portfolio, K_skills, JNull) = SkillsPythonGo
    /\ BlockSections(ch_portfolio) >= 5
    /\ Contains(ch_context, SkillsLine)
    /\ ~HasAt(ch_context, 1, SkillsLine)

\* C12 as stated: the context is the labelled block exactly when at least
\* three of the nine sections are non-empty; with fewer it is the first 4000
\* characters of the raw resume text (empty when there is none), never longer
\* than 4000 characters.
C12_BlockIffThreeNonEmpty ==
    ContextBuilt =>
        /\ NonEmptySections(ch_portfolio) >= 3 =>
              ch_context = Join(ContextParts(ch_portfolio), <<"\n", "\n">>, 1)
        /\ NonEmptySections(ch_portfolio) < 3 =>
              /\ ch_context = RawPrefix(ch_resume)
              /\ Len(ch_context) <= 4000

\* C12 as amended: a section counts when it gives a block: name, role and bio
\* when not empty, skills and achievements when a non-empty list, experience,
\* projects and education when a list with at least one mapping entry, contact
\* when a mapping with at least one non-empty value. The context is the
\* labelled block exactly when at least three sections count; with fewer it is
\* the first 4000 characters of the raw resume text (empty when there is
\* none), never longer than 4000 characters.
C12_BlockIffThreeBlocks ==
    ContextBuilt =>
        /\ Len(ContextParts(ch_portfolio)) = BlockSections(ch_portfolio)
        /\ BlockSections(ch_portfolio) >= 3 =>
              ch_context = Join(ContextParts(ch_portfolio), <<"\n", "\n">>, 1)
        /\ BlockSections(ch_portfolio) < 3 =>
              /\ ch_context = RawPrefix(ch_resume)
              /\ Len(ch_context) <= 4000
              /\ \A i \in 1..Len(ch_context) : ch_context[i] # "z"

\* two sections and a resume text of 4001 characters: the context has 4000
C12_Witness ==
    /\ ContextBuilt
    /\ BlockSections(ch_portfolio) < 3
    /\ BlockSections(ch_portfolio) > 0
    /\ Len(ch_resume.s) > 4000
    /\ Len(ch_context) = 4000

\* the turns of a history, none for no history
TurnsOf(h) == IF h.t = "list" THEN h.items ELSE <<>>

\* the last min(6, n) turns of n turns
LastSix(turns) ==
    [k \in 1..(IF Len(turns) < 6 THEN Len(turns) ELSE 6) |->
        turns[Len(turns) - (IF Len(turns) < 6 THEN Len(turns) ELSE 6) + k]]

\* the role-tagged line of a turn: ROLE: content
TaggedLine(turn) ==
    Upper(IF HasKey(turn, K_role) THEN DictGet(turn, K_role, JNull).s ELSE K_user)
        \o <<":", " ">>
        \o (IF HasKey(turn, K_content) THEN DictGet(turn, K_content, JNull).s ELSE <<>>)
        \o <<"\n">>

HasContent(turn) == HasKey(turn, K_content) /\ DictGet(turn, K_content, JNull).s # <<>>

\* the prompt with these lines between the history header and the user message
PromptWith(lines) ==
    SystemPromptHead \o ch_context \o SystemPromptEnd \o HistoryHeader
        \o Join(lines, <<>>, 1) \o PromptEnd(ch_message)

\* chat returned from the RAG branch
RagAnswered == ch_pc = "done" /\ ch_branch = "rag"

\* C13 as stated: in RAG mode the prompt holds, in their order and before the
\* current user message, exactly the last min(6, n) turns of the history, each
\* as a role-tagged line with its content; no older turn appears and none of
\* the last six is dropped.
C13_LastSixTurns ==
    RagAnswered =>
        ch_prompt =
            PromptWith([k \in 1..Len(LastSix(TurnsOf(ch_history))) |->
                           TaggedLine(LastSix(TurnsOf(ch_history))[k])])

\* C13 as amended: of the last min(6, n) turns exactly those with a non-empty
\* content appear, in their order and before the current user message, each as
\* the line "ROLE: content" with the role in upper case (USER for a turn
\* without a role); a turn without content gives no line, and no turn older
\* than the last six appears.
C13_LastSixTurnsWithContent ==
    RagAnswered =>
        /\ ch_prompt =
              PromptWith([k \in 1..Len(SelectSeq(LastSix(TurnsOf(ch_history)), HasContent)) |->
                  TaggedLine(SelectSeq(LastSix(TurnsOf(ch_history)), HasContent)[k])])
        /\ \A i \in 1..(Len(TurnsOf(ch_history)) - 6) :
              ~Contains(ch_prompt, <<"m", Digits[i + 1]>>)

\* seven turns: the first is left out, the other six are there
C13_Witness ==
    /\ RagAnswered
    /\ Len(TurnsOf(ch_history)) = 7
    /\ ~Contains(ch_prompt, <<"m", "1">>)
    /\ \A i \in 2..7 : Contains(ch_prompt, <<"m", Digits[i + 1], "\n">>)

\* ------------------------------------------------------------------------
\* Properties of the scoring of job listings
\* ------------------------------------------------------------------------

\* the record is the listing at position k of the fetched list
IsListing(rec, k) ==
    rec.id = js_jobs[k].id /\ rec.description = js_jobs[k].description

\* an entry of the parsed reply that names one of the first fifteen listings
NamesListing(e) ==
    /\ HasKey(e, K_index)
    /\ DictGet(e, K_index, JNull).t = "num"
    /\ DictGet(e, K_index, JNull).n \in 0..(Min(15, Len(js_jobs)) - 1)

\* ... and gives it a score of at least 40
Passes(e) ==
    /\ NamesListing(e)
    /\ HasKey(e, K_score)
    /\ DictGet(e, K_score, JNull).t = "num"
    /\ DictGet(e, K_score, JNull).n >= 40

HasRecord(e) ==
    \E i \in 1..Len(js_out) :
        /\ IsListing(js_out[i], DictGet(e, K_index, JNull).n + 1)
        /\ js_out[i].match_score = DictGet(e, K_score, JNull).n

ScoredReturn == js_pc = "done" /\ js_path = "scored"

ScoringCallFailed ==
    js_pc = "done" /\ js_response.kind \in {"ConnectError", "TimeoutException",
                                             "status", "body"}

\* C15: when the scoring call fails on n >= 1 listings, the records returned are
\* the first min(10, n) listings in fetch order and the record at position i
\* (from 0) scores 80 - 2*i
C15_FallbackRecords ==
    ScoringCallFailed =>
        /\ Len(js_jobs) >= 1
        /\ Len(js_out) = Min(10, Len(js_jobs))
        /\ \A i \in 1..Len(js_out) :
            IsListing(js_out[i], i) /\ js_out[i].match_score = 80 - 2 * (i - 1)

\* twenty listings or more and a timeout: ten records, from 80 down to 62
C15_Witness ==
    /\ ScoringCallFailed
    /\ js_response.kind = "TimeoutException"
    /\ Len(js_jobs) >= 20
    /\ Len(js_out) = 10
    /\ js_out[1].match_score = 80
    /\ js_out[10].match_score = 62

\* C16: no call of _score_and_filter_jobs ends by raising to its caller
C16_ScoringNeverRaises == js_pc # "raised"

\* ------------------------------------------------------------------------
\* Properties of the cache of job searches
\* ------------------------------------------------------------------------

KeyOf(r) == CacheKey(r.slug, r.filters)

SameSearch(a, b) == a.slug = b.slug /\ a.filters = b.filters

\* b arrived after a had returned
ArrivedAfter(b, a) == a.pc = "returned" /\ b.pc # "idle" /\ b.no > a.ended

\* the time at which the result a returned was put in the cache
StoredAt(a) == jc_stores[a.sid].at

\* the stores under the key of r that were made before r arrived
StoresBefore(r) == {i \in 1..r.seen : jc_stores[i].key = KeyOf(r)}

LastStore(r) == CHOOSE i \in StoresBefore(r) : \A j \in StoresBefore(r) : j <= i

\* the item of store i was dropped to make room before r arrived
DroppedBefore(i, r) == \E e \in jc_evicted : e[1] = i /\ e[2] <= r.seen

ServedFromCache(b) == b.pc = "returned" /\ b.hit /\ b.api = 0 /\ b.posts = 0

\* C17 (as written): of two requests with the same portfolio and filters, the
\* second arriving after the first has returned and less than 600 s after the
\* result of the first was stored, the second returns the result of the first
\* and makes no listings call and no scoring call
C17_SecondServedFromCache ==
    \A a, b \in Slots :
        ( /\ ArrivedAfter(jc_req[b], jc_req[a])
          /\ SameSearch(jc_req[a], jc_req[b])
          /\ jc_req[b].arrived < StoredAt(jc_req[a]) + 600 )
        => ServedFromCache(jc_req[b]) /\ jc_req[b].result = jc_req[a].result

\* C17 (amended): under the same conditions the second request makes no listings
\* call and no scoring call and returns the result last stored under their key
\* before it arrived, provided the item of that store was not dropped to make
\* room for another key before it arrived
C17_SecondServedUnlessEvicted ==
    \A a, b \in Slots :
        ( /\ ArrivedAfter(jc_req[b], jc_req[a])
          /\ SameSearch(jc_req[a], jc_req[b])
          /\ jc_req[b].arrived < StoredAt(jc_req[a]) + 600
          /\ ~DroppedBefore(LastStore(jc_req[b]), jc_req[b]) )
        => /\ ServedFromCache(jc_req[b])
           /\ jc_req[b].result = jc_stores[LastStore(jc_req[b])].value
           /\ jc_req[b].sid = LastStore(jc_req[b])

\* a search that missed has returned, and a later one with the same portfolio and
\* filters, 200 s or more later, was served its result from the cache
C17_Witness ==
    \E a, b \in Slots :
        /\ ArrivedAfter(jc_req[b], jc_req[a])
        /\ SameSearch(jc_req[a], jc_req[b])
        /\ ~jc_req[a].hit
        /\ jc_req[b].arrived >= jc_req[a].finished + 200
        /\ jc_req[b].arrived < StoredAt(jc_req[a]) + 600
        /\ ServedFromCache(jc_req[b])
        /\ jc_req[b].result = jc_req[a].result

\* the items that have not expired
LiveItems == SelectSeq(jc_cache, LAMBDA e : jc_now < e.expires)

\* a step that stores a result under a key that is not among 100 live items
StoresIntoFull ==
    /\ Len(jc_stores') = Len(jc_stores) + 1
    /\ Len(LiveItems) = 100
    /\ \A i \in 1..100 : LiveItems[i].key # jc_stores'[Len(jc_stores')].key

\* ... drops the least recently used item, keeps the others and serves its request
EvictsOne ==
    /\ Len(jc_cache') = 100
    /\ \A i \in 1..99 : jc_cache'[i] = LiveItems[i + 1]
    /\ jc_cache'[100].key = jc_stores'[Len(jc_stores')].key
    /\ jc_cache'[100].value = jc_stores'[Len(jc_stores')].value
    /\ \E s \in Slots :
        /\ jc_req[s].pc \in {"fetching", "scoring"}
        /\ jc_req'[s].pc = "returned"
        /\ jc_req'[s].result = jc_cache'[100].value

\* C18: the cache never holds more than 100 items, and a search that stores a
\* result under a new key while 100 live items exist drops the least recently
\* used item and returns its result
C18_AtMostHundredEntries ==
    [](Len(jc_cache) <= 100) /\ [][StoresIntoFull => EvictsOne]_vars

\* the cache is full after a store that dropped the item of ann's first search,
\* which was the least recently used one
C18_Witness ==
    /\ Len(jc_cache) = 100
    /\ <<1, 2>> \in jc_evicted
    /\ \E s \in Slots :
        /\ jc_req[s].pc = "returned"
        /\ jc_req[s].sid = 2
        /\ jc_cache[100].key = KeyOf(jc_req[s])

\* C19: a request is served from the cache only less than 600 s after the result
\* it gets was stored; a request that arrives 600 s or more after the last store
\* under its key is not served from the cache, makes a listings call and, when
\* its search returns a result, has stored that result under the same key at
\* that time; having been served in between does not change this
C19_ServedOnlyWithinWindow ==
    \A s \in Slots :
        /\ jc_req[s].hit => jc_req[s].arrived < StoredAt(jc_req[s]) + 600
        /\ ( /\ jc_req[s].pc # "idle"
             /\ StoresBefore(jc_req[s]) # {}
             /\ jc_req[s].arrived >= jc_stores[LastStore(jc_req[s])].at + 600 )
           => /\ ~jc_req[s].hit
              /\ jc_req[s].api = 1
              /\ jc_req[s].pc = "returned" =>
                    /\ jc_req[s].sid > jc_req[s].seen
                    /\ jc_stores[jc_req[s].sid]
                        = [key |-> KeyOf(jc_req[s]), value |-> jc_req[s].result,
                           at |-> jc_req[s].finished]

\* a request was served at 400 s the result stored at 0 s, and the next request
\* with the same portfolio and filters, at 600 s, made its own search and stored
\* its result
C19_Witness ==
    \E a, b \in Slots :
        /\ SameSearch(jc_req[a], jc_req[b])
        /\ jc_req[a].hit /\ jc_req[a].arrived = 400 /\ StoredAt(jc_req[a]) = 0
        /\ jc_req[b].no > jc_req[a].no
        /\ jc_req[b].arrived = 600
        /\ jc_req[b].pc = "returned" /\ ~jc_req[b].hit /\ jc_req[b].api = 1
        /\ jc_stores[jc_req[b].sid].at = 600
        /\ InCache(jc_cache, KeyOf(jc_req[b]), jc_now)

\* ------------------------------------------------------------------------
\* Properties of the upload
\* ------------------------------------------------------------------------

ProcessingFailed == up_pc = "done" /\ up_outcome \in {"ValueError", "RuntimeError",
                                                      "AttributeError"}

\* C20: when process_resume raises during an upload, the row stored for the user
\* holds the ten fields of the default record (the name being the capitalised
\* username) and the request is answered with the success message; the uploaded
\* file is gone when the request has ended, whether process_resume raised or not
C20_FallbackPortfolioStored ==
    /\ ProcessingFailed =>
        /\ up_has_row
        /\ up_row.name = JStr(Title(up_user))
        /\ up_row.role = JStr(T_professional)
        /\ up_row.tagline = JStr(T_default_tagline)
        /\ up_row.bio = JStr(T_default_bio)
        /\ up_row.skills = DefaultSkills
        /\ up_row.projects = JList(<<>>)
        /\ up_row.experience = JList(<<>>)
        /\ up_row.education = JList(<<>>)
        /\ up_row.achievements = JList(<<>>)
        /\ up_row.contact = JDict(<<>>, <<>>)
        /\ up_response = "Portfolio generated"
    /\ up_pc = "done" => ~up_file

\* all models failed: the row now holds the default record with the text of the
\* fallback, the success message was returned and the file is gone
C20_Witness ==
    /\ ProcessingFailed
    /\ up_outcome = "RuntimeError"
    /\ up_row.role = JStr(T_professional)
    /\ up_row.resume_text = JStr(T_default_raw_text)
    /\ up_response = "Portfolio generated"
    /\ ~up_file

\* ------------------------------------------------------------------------
\* Properties of the delays and of the termination of the fallback loop
\* ------------------------------------------------------------------------

\* the step is one model attempt
Attempted == Len(called') = Len(called) + 1

\* the endpoint answered 429 or another status than 200, or the call timed out
FailedAtNetwork(r) ==
    \/ r.transport = "timeout"
    \/ r.transport = "ok" /\ r.status # 200

\* the endpoint answered 200 and the try block ended in ValueError or KeyError:
\* the body or the content is not JSON, the envelope has no choices key, or
\* the content is not a mapping (portfolio only)
FailedAtParsing(r) ==
    /\ r.transport = "ok" /\ r.status = 200
    /\ CaughtAsParse(TryBody(task, username, r).exc)

\* C21: sleeps starts at 0; an attempt that failed at the network layer (429,
\* another status than 200, timeout) is followed by exactly one sleep of 1 s in
\* the same step, the last model of the list included; an attempt that failed at
\* parsing, and every other step, leaves the number of sleeps as it is. So the
\* number of sleeps is the number of attempts that failed at the network layer.
C21_OneDelayPerNetworkFailure ==
    /\ (pc = "idle" => sleeps = 0)
    /\ [][ /\ Attempted /\ FailedAtNetwork(last_response') => sleeps' = sleeps + 1
           /\ Attempted /\ FailedAtParsing(last_response') => sleeps' = sleeps
           /\ ~(Attempted /\ FailedAtNetwork(last_response')) => sleeps' = sleeps
           /\ Attempted /\ FailedAtNetwork(last_response')
                 /\ Len(called') = Len(models_to_try) => pc' = "loop" ]_vars
    /\ [](sleeps = net_failures /\ sleeps + parse_failures <= Len(called))

\* every model of the list was tried, at least one answer was not parsable, the
\* last model timed out or was refused, and the call slept once per network
\* failure, the last one included, before it raised
C21_Witness ==
    /\ pc = "done"
    /\ raised.type = "RuntimeError"
    /\ Len(called) = Len(models_to_try)
    /\ parse_failures >= 1
    /\ sleeps >= 2
    /\ sleeps + parse_failures = Len(called)
    /\ FailedAtNetwork(last_response)

\* ------------------------------------------------------------------------
\* Properties of the order of the strategies of _fix_json_string
\* ------------------------------------------------------------------------

\* the substring of t from its first '{' to its last '}'
FirstToLastBrace(t) ==
    IF FirstIndex(t, "{", 1) # 0 /\ LastIndex(t, "}", Len(t)) > FirstIndex(t, "{", 1)
    THEN [found |-> TRUE,
          text |-> SubSeq(t, FirstIndex(t, "{", 1), LastIndex(t, "}", Len(t)))]
    ELSE [found |-> FALSE, text |-> <<>>]

\* the four parses in the stated order, on the fence-stripped text t
StatedAttempts(t, cleaned) ==
    [k \in 1..4 |->
        TryLoads(<<Whole(t), FirstToLastBrace(t), Whole(cleaned),
                   FirstToLastBrace(cleaned)>>[k])]

StatedFirst(tries) == CHOOSE k \in 1..4 : tries[k].ok /\ \A m \in 1..(k - 1) : ~tries[m].ok

\* C22: _fix_json_string returns the value of the first of (1) the parse of the
\* fence-stripped text, (2) the parse of its substring from the first '{' to the
\* last '}', (3) the parse of the comma-repaired text, (4) the parse of the
\* substring of the comma-repaired text, that parses; it raises, with the first
\* 300 characters of the fence-stripped text, exactly when none of them parses
C22_StrategiesInOrder ==
    fx_pc = "done" =>
        LET t == StripFences(fx_text)
            tries == StatedAttempts(t, RemoveTrailingCommas(t, 1))
        IN  /\ fx_out.ok <=> (\E k \in 1..4 : tries[k].ok)
            /\ fx_out.ok => fx_out.val = tries[StatedFirst(tries)].val
            /\ ~fx_out.ok => fx_out.err = SubSeq(t, 1, Min(300, Len(t)))

\* ------------------------------------------------------------------------
\* Properties of the name and of the string fields of the normalised data
\* ------------------------------------------------------------------------

\* the data provide no name: the key is missing, or its value is null, an empty
\* value that is no string, or the empty string
ProvidesNoName(data) ==
    \/ ~HasKey(data, K_name)
    \/ ~Truthy(DictGet(data, K_name, JNull))

\* C23: when the data provide no name the normalised name is the capitalised
\* username, or "Unknown" when no username was given; a non-empty value of a
\* string field that is no string is replaced by its string conversion
C23_NameDefaulted ==
    (nm_pc = "done" /\ nm_data.t = "dict") =>
        /\ ProvidesNoName(nm_data) =>
              DictGet(nm_out.val, K_name, JNull)
                  = JStr(IF nm_user # <<>> THEN Title(nm_user) ELSE Unknown)
        /\ \A k \in StringKeys :
              ( /\ HasKey(nm_data, k)
                /\ DictGet(nm_data, k, JNull).t # "str"
                /\ Truthy(DictGet(nm_data, k, JNull)) )
              => DictGet(nm_out.val, k, JNull) = JStr(Str(DictGet(nm_data, k, JNull)))

\* ------------------------------------------------------------------------
\* Properties of the cache key
\* ------------------------------------------------------------------------

\* C24: two requests that have the same cache key have the same slug and the
\* same values of the five filters, and the result a request returns was
\* computed for its own slug and its own filter values
C24_KeySeparatesSearches ==
    /\ \A a, b \in Slots :
          (jc_req[a].pc # "idle" /\ jc_req[b].pc # "idle"
              /\ KeyOf(jc_req[a]) = KeyOf(jc_req[b]))
          => SameSearch(jc_req[a], jc_req[b])
    /\ \A s \in Slots :
          jc_req[s].pc = "returned" =>
              /\ jc_req[s].result.slug = jc_req[s].slug
              /\ jc_req[s].result.filters = jc_req[s].filters

\* ------------------------------------------------------------------------
\* Properties of the searches that fail
\* ------------------------------------------------------------------------

\* the request of slot s ends in this step with an exception
RaisesNow(s) == jc_req'[s].pc = "raised" /\ jc_req'[s] # jc_req[s]

\* C25: while the credentials of the listings API are missing, every request
\* that is not served from the cache ends with the ValueError of line 36, having
\* made no listings call and no scoring call; and a step in which a request ends
\* with an exception, that ValueError or the one the listings call raised,
\* leaves the cache as it was
C25_UnconfiguredFailsBeforeCalls ==
    /\ [](~jc_configured =>
            \A s \in Slots :
                (jc_req[s].pc # "idle" /\ ~jc_req[s].hit) =>
                    /\ jc_req[s].pc = "raised"
                    /\ jc_req[s].raised = "ValueError"
                    /\ jc_req[s].api = 0
                    /\ jc_req[s].posts = 0)
    /\ [][\A s \in Slots : RaisesNow(s) => jc_cache' = jc_cache]_vars

\* the models are called in the order of the list, each at most once
CalledInOrder ==
    /\ Len(called) <= Len(models_to_try)
    /\ \A i \in 1..Len(called) : called[i] = models_to_try[i]

\* C26: every call ends; when it has ended it has returned a result or raised
\* the RuntimeError of the exhausted list; it calls the models of its list in
\* order, each at most once, and sleeps at most once per call
C26_CallTerminates ==
    /\ <>(pc = "done")
    /\ [](pc = "done" => (outcome = "returned" \/ raised.type = "RuntimeError"))
    /\ []CalledInOrder
    /\ [](sleeps <= Len(called))

\* b looked the key of a up while a was between its lookup and its store
Overlaps(a, b) ==
    /\ a.no > 0 /\ b.no > a.no
    /\ KeyOf(a) = KeyOf(b)
    /\ \/ InFlight(a)
       \/ a.pc = "returned" /\ ~a.hit /\ b.seen < a.sid
       \/ a.pc = "raised" /\ a.api = 1 /\ a.ended >= b.no

\* no request stored the key of a between the arrival of a and that of b
NoStoreBetween(a, b) ==
    \A i \in (a.seen + 1)..b.seen : jc_stores[i].key # KeyOf(a)

StoresOf(key) == {i \in 1..Len(jc_stores) : jc_stores[i].key = key}

WrittenLast(key) == CHOOSE i \in StoresOf(key) : \A j \in StoresOf(key) : j <= i

\* each request that returned has the whole list of one computation
ReturnsOneComputation ==
    \A s \in Slots :
        jc_req[s].pc = "returned" =>
            /\ jc_req[s].sid \in StoresOf(KeyOf(jc_req[s]))
            /\ jc_req[s].result = jc_stores[jc_req[s].sid].value

\* the item of a key that was stored is the result that was written last
CacheHoldsLastWritten ==
    \A i \in 1..Len(jc_cache) :
        StoresOf(jc_cache[i].key) # {} =>
            /\ jc_cache[i].sid = WrittenLast(jc_cache[i].key)
            /\ jc_cache[i].value = jc_stores[jc_cache[i].sid].value

\* C27 (as written): of two requests with the same key, the one that looks the
\* key up before the other has stored its result misses the cache too and makes
\* a listings call and a scoring call of its own; each request returns the whole
\* list of one computation, and the item of the key is the result written last
C27_OverlappingBothCompute ==
    /\ \A a, b \in Slots :
        Overlaps(jc_req[a], jc_req[b]) =>
            /\ ~jc_req[b].hit
            /\ ~InFlight(jc_req[b]) => (jc_req[b].api = 1 /\ jc_req[b].posts = 1)
    /\ ReturnsOneComputation
    /\ CacheHoldsLastWritten

\* C27 (amended): of two requests with the same key, the one that looks the key
\* up before the other has stored its result misses the cache too, unless a
\* third request stored the key in between; a request that missed returns a
\* list only after a listings call of its own, and a scored or fallback list
\* only after a scoring call of its own, and what it returns is what it stored;
\* each request returns the whole list of one computation, and the item of the
\* key is the result written last
C27_OverlappingBothMiss ==
    /\ \A a, b \in Slots :
        (Overlaps(jc_req[a], jc_req[b]) /\ NoStoreBetween(jc_req[a], jc_req[b])) =>
            ~jc_req[b].hit
    /\ \A s \in Slots :
        (jc_req[s].pc = "returned" /\ ~jc_req[s].hit) =>
            /\ jc_req[s].api = 1
            /\ jc_req[s].result.path \in {"scored", "fallback"} => jc_req[s].posts = 1
            /\ jc_req[s].result.path = "empty" => jc_req[s].posts = 0
            /\ jc_req[s].result
                = JobsResult(jc_req[s].slug, jc_req[s].filters, jc_req[s].result.path)
            /\ jc_stores[jc_req[s].sid].at = jc_req[s].finished
    /\ ReturnsOneComputation
    /\ CacheHoldsLastWritten

\* two overlapping requests with the same key both scored listings; the one that
\* arrived first stored last, with another list than the other, and its list is
\* the item of the key
C27_Witness ==
    \E a, b \in Slots :
        /\ Overlaps(jc_req[a], jc_req[b])
        /\ jc_req[a].pc = "returned" /\ jc_req[b].pc = "returned"
        /\ ~jc_req[a].hit /\ ~jc_req[b].hit
        /\ jc_req[a].posts = 1 /\ jc_req[b].posts = 1
        /\ jc_req[a].sid > jc_req[b].sid
        /\ jc_req[a].result # jc_req[b].result
        /\ InCache(jc_cache, KeyOf(jc_req[a]), jc_now)
        /\ EntryOf(jc_cache, KeyOf(jc_req[a])).value = jc_req[a].result

\* the request of slot s returns in this step the list it computed
ReturnsComputed(s) == InFlight(jc_req[s]) /\ jc_req'[s].pc = "returned"

\* after the step the cache holds the list the request of slot s returned, for
\* the next 600 s
StoredForWindow(s) ==
    /\ jc_req'[s].result.path \in {"scored", "fallback", "empty"}
    /\ InCache(jc_cache', KeyOf(jc_req'[s]), jc_now)
    /\ EntryOf(jc_cache', KeyOf(jc_req'[s])).value = jc_req'[s].result
    /\ EntryOf(jc_cache', KeyOf(jc_req'[s])).expires = jc_now + 600

\* a missed the cache and returned the list of one of the three paths, and b,
\* the same search, arrived later and less than 600 s after the store of a
AgainInWindow(a, b) ==
    /\ ArrivedAfter(b, a)
    /\ SameSearch(a, b)
    /\ ~a.hit
    /\ a.result.path \in {"scored", "fallback", "empty"}
    /\ b.arrived < StoredAt(a) + 600

\* C28 (as written): a search that missed the cache stores the list it returns,
\* whichever path made it, and the same search arriving within the window
\* returns that list with no listings call and no scoring call
C28_EveryPathServedAgain ==
    /\ [][\A s \in Slots : ReturnsComputed(s) => StoredForWindow(s)]_vars
    /\ [](\A a, b \in Slots :
            AgainInWindow(jc_req[a], jc_req[b]) =>
                ServedFromCache(jc_req[b]) /\ jc_req[b].result = jc_req[a].result)

\* C28 (amended): a search that missed the cache stores the list it returns,
\* whichever path made it, and the same search arriving within the window
\* returns the list last stored under the key, with no listings call and no
\* scoring call, provided the item of that store was not dropped to make room
\* for another key
C28_EveryPathStored ==
    /\ [][\A s \in Slots : ReturnsComputed(s) => StoredForWindow(s)]_vars
    /\ [](\A a, b \in Slots :
            ( /\ AgainInWindow(jc_req[a], jc_req[b])
              /\ ~DroppedBefore(LastStore(jc_req[b]), jc_req[b]) )
            => /\ ServedFromCache(jc_req[b])
               /\ jc_req[b].result = jc_stores[LastStore(jc_req[b])].value
               /\ jc_req[b].result.path \in {"scored", "fallback", "empty"})

\* the empty list of a listings call that brought nothing was stored, and the
\* same search, arriving later, was served it from the cache; another search
\* stored a list of the scoring call
C28_Witness ==
    /\ \E a, b \in Slots :
        /\ AgainInWindow(jc_req[a], jc_req[b])
        /\ jc_req[a].result.path = "empty"
        /\ jc_req[a].posts = 0
        /\ ServedFromCache(jc_req[b])
        /\ jc_req[b].result = jc_req[a].result
    /\ \E i \in 1..Len(jc_stores) : jc_stores[i].value.path \in {"scored", "fallback"}

\* C29: when the scoring succeeds, no fetched listing has two records in the
\* returned list, whatever indexes the reply names, and the list has at most 15
\* records
C29_EachListingOnce ==
    ScoredReturn =>
        /\ \A i, j \in 1..Len(js_out) :
            \A k \in 1..Len(js_jobs) :
                (IsListing(js_out[i], k) /\ IsListing(js_out[j], k)) => i = j
        /\ Len(js_out) <= 15

\* ------------------------------------------------------------------------
\* Claims about the publish flag
\* ------------------------------------------------------------------------

\* the request handled last asked for the portfolio while it was not published
\* and did not come from its owner
UnpublishedAskedByOther ==
    /\ pv_last.endpoint \in {"page", "chat", "ppt", "docx", "jobs"}
    /\ pv_last.slug = S_ann
    /\ ~pv_last.published
    /\ pv_last.who # "owner"

\* C30: whatever toggles came before, a request for a portfolio that is not
\* published, by anyone but its owner, is answered 403 by the portfolio page and
\* gets no answer made from the portfolio from the chat, export and
\* job-recommendation endpoints
C30_UnpublishedOnlyToOwner ==
    UnpublishedAskedByOther =>
        /\ pv_last.status # 200
        /\ pv_last.endpoint = "page" => pv_last.status = 403

====
